------------------------------ MODULE MCPlayMotion ------------------------------
\* The positions emcli play sends, and beside them, each on its own, the two
\* computations of the screen thread that touch nothing of the motion.
EXTENDS PlayMotion, PlayTable

VARIABLE scenario  \* "motion", "window" or "rows"
allVars == <<startVars, motionVars, tableVars, scenario>>

\* The first file drives both motors. The id of the second file is kept as 1
\* and its other motor is held.
MCFiles == {
  [columns |-> <<1, 2>>,
   samples |-> <<[time |-> 1, pos |-> <<2, 0>>], [time |-> 2, pos |-> <<4, 1>>],
                 [time |-> 4, pos |-> <<1, 1>>]>>],
  [columns |-> <<9>>, samples |-> <<[time |-> 0, pos |-> <<3>>]>>]}
MCReadings == {0, 5}

MCInit ==
  /\ scenario \in {"motion", "window", "rows"}
  /\ PlayInit /\ TableInit
  /\ scenario # "motion" => ~endless /\ ~dryRun /\ Len(file.columns) = 1

MCNext ==
  /\ UNCHANGED scenario
  /\ \/ scenario = "motion" /\ PlayNext /\ UNCHANGED tableVars
     \/ scenario = "window" /\ WindowNext /\ UNCHANGED <<startVars, motionVars>>
     \/ scenario = "rows" /\ RowsNext /\ UNCHANGED <<startVars, motionVars>>
     \/ scenario = "window" /\ UNCHANGED allVars

MCSpec == MCInit /\ [][MCNext]_allVars
=============================================================================
