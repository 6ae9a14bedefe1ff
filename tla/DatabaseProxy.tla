--------------------------- MODULE DatabaseProxy ---------------------------
(***************************************************************************)
(* cyclone-database-proxy.py: results are buffered and stored in one       *)
(* INSERT, when store_max_count of them have come or the last store was    *)
(* store_timeout ago, and once more at the end.  The table is not          *)
(* transactional (MyISAM): an INSERT that fails may have inserted some     *)
(* rows.                                                                   *)
(***************************************************************************)
EXTENDS ResultSink

CONSTANT StoreMaxCount      \* store_max_count

ASSUME CountAssumption == StoreMaxCount \in Nat \ {0}

VARIABLES
    buffer,     \* _ost_perf_result_list: executions whose result it has
    rows,       \* rows[e]: how often e's result is in the table
    failed      \* failed[e]: history: failed stores it was in

proxyVars == <<buffer, rows, failed>>

InBuffer == {buffer[k] : k \in DOMAIN buffer}

ProxyTypeOK ==
    /\ buffer \in Seq(Executions)
    /\ rows \in [Executions -> 0 .. 2] /\ failed \in [Executions -> 0 .. 2]

ProxyInit ==
    /\ buffer = << >>
    /\ rows = [e \in Executions |-> 0] /\ failed = [e \in Executions |-> 0]

Counted(f, seq) == [e \in Executions |->
    IF \E k \in DOMAIN seq : seq[k] = e THEN f[e] + 1 ELSE f[e]]

(* store() without an exception.                                           *)
Stores(b) == rows' = Counted(rows, b) /\ UNCHANGED failed

(* store() with one: no connection, an error of the statement, or a number *)
(* of rows that is not the expected one.                                   *)
StoreRaises(b) ==
    /\ \E n \in 0 .. Len(b) : rows' = Counted(rows, SubSeq(b, 1, n))
    /\ failed' = Counted(failed, b)

(* Faulty variant: the buffer is not cleared after it was stored.          *)
StoreOnly(b) == Stores(b) /\ buffer' = b

(* Faulty variant: the buffer is cleared also when store() has failed.     *)
ClearAnyway(b) == StoreRaises(b) /\ buffer' = << >>

StoreAndClear(b) == Stores(b) /\ buffer' = << >>
StoreFails(b)    == StoreRaises(b) /\ buffer' = b

(* The loop ends by its condition or by an exception.                      *)
GoRoundOrLeave == GoRound \/ (~run /\ Leave("final"))

(* Faulty variant: the time is looked at only when a result has come.      *)
TimeToStoreReceived(b) ==
    Len(b) > Len(buffer) /\ (due \/ Len(b) >= StoreMaxCount)

TimeToStore(b) == b # << >> /\ (due \/ Len(b) >= StoreMaxCount)

KeepBuffer(b) ==
    /\ ~TimeToStore(b)
    /\ buffer' = b /\ UNCHANGED <<rows, failed, since, age>>
    /\ GoRoundOrLeave

StoreBuffer(b) ==
    /\ TimeToStore(b)
    /\ \/ StoreAndClear(b) /\ since' = 0 /\ age' = 0 /\ GoRoundOrLeave
       \/ StoreFails(b) /\ UNCHANGED <<since, age>> /\ Leave("final")

ProxyIteration ==
    \/ /\ PollTimesOut
       /\ KeepBuffer(buffer) \/ StoreBuffer(buffer)
       /\ Takes({})
    \/ \E r \in inbox :
          /\ LET b == Append(buffer, r[1]) IN KeepBuffer(b) \/ StoreBuffer(b)
          /\ Takes({r})

(* After the with block.  An exception here ends the program, and with it  *)
(* the buffer.                                                             *)
FinalStore ==
    /\ sink = "final" /\ sink' = "down"
    /\ IF buffer = << >> THEN UNCHANGED <<rows, failed>>
                         ELSE Stores(buffer) \/ StoreRaises(buffer)
    /\ buffer' = << >> /\ age' = 0
    /\ UNCHANGED <<onway, inbox, run, waited, since, due>>

ProxyStep == ProxyIteration \/ FinalStore
=============================================================================
