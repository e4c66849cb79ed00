---------------------------- MODULE MCQueuePasses ----------------------------
(* IngestQueue with a history variable: the rows a worker has claimed in the *)
(* drain pass it is in.                                                      *)
EXTENDS IngestQueue

CONSTANTS w1, c1, h1

VARIABLE tried    \* worker -> the rows it claimed since StartPass

PassInit == Init /\ tried = [w \in Worker |-> {}]

PassNext ==
    /\ Next
    /\ tried' = [w \in Worker |->
                   IF pc[w] = "idle" THEN {}
                   ELSE IF book'[w] # None THEN tried[w] \cup {book'[w]}
                   ELSE tried[w]]

PassSpec == PassInit /\ [][PassNext]_<<vars, tried>>

\* worker.py:11-12 "One drain pass gives each row one attempt (the pass
\* watermark), so a failing book waits for the next pass, not a tight retry
\* loop": a claim never takes a row this pass has claimed before.
OneAttemptPerPass ==
    [][\A w \in Worker, r \in RowId :
        book[w] # r /\ book'[w] = r => r \notin tried[w]]_<<vars, tried>>
=============================================================================
