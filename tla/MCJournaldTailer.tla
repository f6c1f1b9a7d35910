-------------------------- MODULE MCJournaldTailer --------------------------
\* Constants of JournaldTailer for TLC.
EXTENDS JournaldTailer, TLC

CONSTANTS a, b

Plain == [path |-> NoPath, startPosition |-> "beginning",
          includeMatches |-> {}, includeUnits |-> {}, includeUserUnits |-> {},
          excludeMatches |-> {}, excludeUnits |-> {}, excludeUserUnits |-> {}]

\* One source for a system unit and a user's, read from the beginning; one
\* that takes the rest of another journal, from its end.
MCConfig ==
  a :> [Plain EXCEPT !.includeUnits = {"ssh"}, !.includeUserUnits = {"app"}] @@
  b :> [Plain EXCEPT !.path = "p", !.startPosition = "end",
                     !.excludeUserUnits = {"*"}, !.excludeUnits = {"app"}]

\* Two sources of the default journal: they share their id.
SharedConfig ==
  a :> [Plain EXCEPT !.includeUserUnits = {"app"}] @@
  b :> [Plain EXCEPT !.includeUnits = {"ssh"}]

Sys(u) == [unit |-> u, userUnit |-> Absent]
Usr(u) == [unit |-> "user", userUnit |-> u]

MCEntry ==
  [j \in Journals |->
     CASE j = "p" -> <<Usr("ssh"), Sys("ssh")>>
       [] OTHER -> <<Usr("app"), Sys("ssh")>>]
=============================================================================
