------------------------- MODULE MCMetricsPipeline -------------------------
\* Constants of MetricsPipeline for TLC.
EXTENDS MetricsPipeline, TLC

\* Two contexts, one of them with two samples.
MCContextOf == "g1" :> "c1" @@ "g2" :> "c1" @@ "g3" :> "c2"

\* One packet for each of two listeners.
MCPackets == {<<"g1", "k1">>, <<"g3", "g2", "e1">>}

MCListeners == <<"udp", "uds">>
MCCapacity == [k \in Kinds |-> IF k = "sample" THEN 2 ELSE 1]

\* The collectors the aggregator asks at a flush.  Their laws are about
\* operators and not about the state: Init makes TLC evaluate them once.
Rates == INSTANCE HostRates
Gauges == INSTANCE HostGauges
Series == INSTANCE MetricSeries

\* What the collectors that diff two reads ship is true of what happened
\* between the reads (HostRates!CollectorsTrue), and what the others ship adds up
\* to what there is (HostGauges!GaugesTrue).
CollectorsHold == Init => Rates!CollectorsTrue /\ Gauges!GaugesTrue

\* What a client's line says is what its samples, check or event say, and the
\* series of a context are those of its samples (MetricSeries!SeriesTrue).
SeriesHold == Init => Series!SeriesTrue
============================================================================
