------------------------------- MODULE DbScan -------------------------------
(***************************************************************************)
(* Sequential reading of the hash database: db_rewind, then db_nextrec     *)
(* until it returns NULL, beside processes that change the database.  The  *)
(* variable scan records, for each process, what its scan has met so far.  *)
(***************************************************************************)
EXTENDS HashDbKV

VARIABLE scan   \* scan[p]: phase, keys seen, keys that somebody wrote meanwhile

\* A handle starts rewound (db_open), so its scan is "on" from the start.
NewScan == [phase |-> "on", seen |-> [k \in Keys |-> 0], touched |-> {}]

\* The keys of the writes in progress.
BeingWritten == {call[q].key : q \in {r \in Procs : call[r].op \in Writes}}

\* A scan is on from db_rewind as long as its process calls only db_nextrec
\* and until db_nextrec returns NULL.
After(p) ==
    LET s      == scan[p]
        got    == h'[p].rc
        ended  == At(p, "scan") /\ pc'[p] = "idle"
        given  == At(p, "scandat") /\ pc'[p] = "idle"
    IN  IF call[p].op = "rewind" THEN [NewScan EXCEPT !.touched = BeingWritten']
        ELSE IF s.phase = "off" THEN s
        ELSE [phase   |-> IF call'[p].op \in Writes \cup {"fetch"} THEN "off"
                          ELSE IF ended THEN "eof" ELSE s.phase,
              seen    |-> IF given THEN [s.seen EXCEPT ![got[1]] = @ + 1] ELSE s.seen,
              touched |-> s.touched \cup BeingWritten']

ScanInit == Init /\ scan = [p \in Procs |-> NewScan]

ScanSpec == ScanInit /\ [][Next /\ scan' = [p \in Procs |-> After(p)]]_<<vars, scan>>

-----------------------------------------------------------------------------
\* A key that nobody writes during a scan is returned exactly once if it is in
\* the database and never if it is not, although records around it are deleted,
\* reused, moved to the end and appended while the scan goes on.
ScanComplete ==
    \A p \in Procs :
        scan[p].phase = "eof" =>
            \A k \in Keys \ scan[p].touched :
                scan[p].seen[k] = IF kvBar[k] = Blank THEN 0 ELSE 1

=============================================================================
