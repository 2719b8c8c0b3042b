------------------------------- MODULE Ingest -------------------------------
(***************************************************************************)
(* The backend's ingester, go-ingest/ingest.go onMessage: a reading whose  *)
(* seq is not above the last one accepted from its device is dropped as a  *)
(* replay; the others are written to InfluxDB, which keeps one point per   *)
(* device and second.                                                      *)
(***************************************************************************)
EXTENDS Messages, Sequences

CONSTANTS
    Source,           \* devices whose readings arrive
    InfluxFaults,     \* TRUE: a database write may fail
    MaxRestarts       \* bound: restarts of the ingester

VARIABLES
    lastSeq,          \* the lastSeq map; -1 for a device not in it
    stored,           \* what InfluxDB holds, per device, in order of arrival
    accepted,         \* readings past the anti-replay check since the
                      \* ingester was started, for properties
    restarts          \* restarts so far

ingestVars == <<lastSeq, stored, accepted, restarts>>

IngestTypeOK ==
    /\ lastSeq \in [Source -> Word \cup {-1}]
    /\ stored \in [Source -> Seq(Reading)]
    /\ accepted \in [Source -> SUBSET Reading]
    /\ restarts \in 0 .. MaxRestarts

IngestInit ==
    /\ lastSeq = [d \in Source |-> -1]
    /\ stored = [d \in Source |-> <<>>]
    /\ accepted = [d \in Source |-> {}]
    /\ restarts = 0

(* Mutant: an equal number passes.                                         *)
IsReplayStrict(d, r) == r.seq < lastSeq[d]

(* seen && r.Seq <= prev                                                   *)
IsReplay(d, r) == r.seq <= lastSeq[d]

(* A point is found by its tags and its time, the second the reading was   *)
(* published in: it takes the place of one published in the same second.   *)
Written(series, r) ==
    {Append(series, r)} \cup
        {[series EXCEPT ![i] = r] : i \in {Len(series)} \ {0}}

(* onMessage: the number is remembered before the write, which may fail.   *)
OnMessage(d, r) ==
    IF IsReplay(d, r) THEN UNCHANGED ingestVars
    ELSE /\ lastSeq' = [lastSeq EXCEPT ![d] = r.seq]
         /\ accepted' = [accepted EXCEPT ![d] = @ \cup {r}]
         /\ \/ \E series \in Written(stored[d], r) :
                 stored' = [stored EXCEPT ![d] = series]
            \/ InfluxFaults /\ UNCHANGED stored
         /\ UNCHANGED restarts

(* The map of last numbers lives in RAM: a restarted ingester starts over. *)
IngestRestart ==
    /\ restarts < MaxRestarts
    /\ restarts' = restarts + 1
    /\ lastSeq' = [d \in Source |-> -1]
    /\ accepted' = [d \in Source |-> {}]
    /\ UNCHANGED stored

=============================================================================
