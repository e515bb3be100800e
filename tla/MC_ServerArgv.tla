---------------------------- MODULE MC_ServerArgv ----------------------------
(* Argument vectors for ServerArgv.                                        *)
EXTENDS ServerArgv

V1 == <<118, 49>>   \* "v1"

\* Every advertised option alone, in its long and its short form, with a
\* valid value ("tcp" for --sock-type); help and version exit.
MCAdvertised ==
  { <<[name |-> n, long |-> TRUE,
       arg |-> IF n = "sock-type" THEN TCP ELSE V1]>> : n \in LongNames }
  \cup
  { <<[name |-> c, long |-> FALSE,
       arg |-> IF c = "s" THEN TCP ELSE V1]>> : c \in ShortOpt }

\* --sock-type with values of several spellings and lengths.
MCSockTypes ==
  { <<[name |-> "sock-type", long |-> TRUE, arg |-> v]>> :
      v \in { <<116, 99, 112>>,          \* tcp
              <<84, 67, 80>>,            \* TCP
              <<117, 100, 112>>,         \* udp
              <<116, 99>>,               \* tc
              <<116, 99, 112, 54>>,      \* tcp6
              <<120, 121, 122>> } }      \* xyz
=============================================================================
