-------------------------- MODULE MCLiveExperiment --------------------------
(* LiveExperiment for TLC: two terminals, two instruments, and as many       *)
(* commands as a whole campaign needs: a freeze, two experiments and a       *)
(* report.                                                                   *)
EXTENDS LiveExperiment

CONSTANTS t1, t2, v1, v2

\* Either two commands run from the start, or three after a freeze.  Until the
\* first of them starts only the instrument can change.  Terminals are
\* interchangeable, and so are fingerprints: the first command, whichever it
\* is, starts at t1, and the fingerprint it finds, or the frozen one, is v1.
\* After a freeze it is the baseline: a start commutes with all that other
\* terminals do, another freeze is refused, and the deep experiment and the
\* report only end again where there is no baseline.
MCInit ==
  /\ Fresh
  /\ \E c \in Kind \cup {"freeze", "report"} :
       /\ run = [t \in Terminal |->
                   IF t = t1 THEN [Idle EXCEPT !.pc = First(c), !.command = c] ELSE Idle]
       /\ \/ freeze = "ABSENT" /\ instrument = v1 /\ started = MaxCommands - 1
          \/ c = "e2-baseline" /\ freeze = v1 /\ instrument \in Version /\ started = MaxCommands - 2

\* The instrument changes once: what was v1 becomes v2 and stays so.
MCNext == Next /\ instrument' \in {instrument, v2}

MCFairSpec == MCInit /\ [][MCNext]_vars /\ \A t \in Terminal : WF_vars(Step(t))
=============================================================================
