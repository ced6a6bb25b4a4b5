---------------------------- MODULE StreamMerge ----------------------------
(***************************************************************************)
(* MergeStreamReaders and InternalMergeNamedStreamReaders (stream.go): the *)
(* streams of several writers read as one by multiStreamReader.  A reader  *)
(* that is not a plain stream (a child of Copy, a reader with a convert    *)
(* function) is first pumped into a stream of its own by the goroutine of  *)
(* toStream.                                                               *)
(*                                                                         *)
(* raw[s] is the stream source s writes to.  For a pumped source merged[s] *)
(* is the stream its pump fills; the reader of a plain one reads raw[s].   *)
(* An item is a chunk the convert function keeps, one it drops             *)
(* (ErrNoValue), or one it panics on; the error made of a panic is Failure.*)
(*                                                                         *)
(* This module has the state and the steps; StreamCopy composes them with  *)
(* the readers that share the merged one.                                  *)
(***************************************************************************)
EXTENDS Stream, FiniteSets, SequencesExt

CONSTANTS
  Source,
  Pumped,    \* the sources whose reader needs toStream
  Cap,       \* capacity of the writers' streams
  PumpCap,   \* capacity of the streams toStream makes (5 in the code)
  MaxItems,  \* bound: items a writer sends
  MaxTotal,  \* bound: items all writers send together
  Kinds      \* what the convert function does with an item

ASSUME MergeAssumption ==
  /\ Pumped \subseteq Source
  /\ Cap \in Nat \ {0}
  /\ PumpCap \in Nat \ {0}
  /\ MaxItems \in Nat
  /\ MaxTotal \in Nat
  /\ Kinds \subseteq {"keep", "drop", "panic"}

Failure == [n |-> 0, kind |-> "error"]
SourceEOF == [n |-> 0, kind |-> "eof"]
Item == [n : 1 .. MaxItems, kind : Kinds] \union {Failure}
Chunk == Source \X (Item \union {SourceEOF})

VARIABLES
  named,      \* sourceReaderNames is set
  raw, merged,
  writer,     \* per source: "idle", "select" in send, "done" after Close
  sent,       \* history: the items each writer sent
  pump,       \* per pumped source: where its goroutine is
  holding,    \* the item the pump wants to send
  nonClosed,  \* msr.nonClosed
  reader,     \* "idle", "recv", "eof" or "closed"
  delivered   \* history: what recv returned, as pairs <<source, item>>

mergeVars == <<named, raw, merged, writer, sent, pump, holding, nonClosed, reader, delivered>>

MergeInit ==
  /\ named \in BOOLEAN
  /\ raw = [s \in Source |-> newStream]
  /\ merged = [s \in Pumped |-> newStream]
  /\ writer = [s \in Source |-> "idle"]
  /\ sent = [s \in Source |-> <<>>]
  /\ pump = [s \in Pumped |-> "recv"]
  /\ holding = [s \in Pumped |-> Failure]
  /\ nonClosed = Source
  /\ reader = "idle"
  /\ delivered = <<>>

-----------------------------------------------------------------------------
\* The writers, which send what they like, stop when they are told closed, and
\* Close.
others == <<named, merged, pump, holding, nonClosed, reader, delivered>>

\* Items that were sent or wait for room.
Begun == FoldFunction(LAMBDA q, n : Len(q) + n, 0, sent)
         + Cardinality({s \in Source : writer[s] = "select"})

Send(s) ==
  /\ writer[s] = "idle"
  /\ \/ /\ writer' = [writer EXCEPT ![s] = "done"]
        /\ raw' = [raw EXCEPT ![s] = closeSend(@)]
     \/ /\ ~raw[s].closed /\ Len(sent[s]) < MaxItems /\ Begun < MaxTotal
        /\ writer' = [writer EXCEPT ![s] = "select"]
        /\ UNCHANGED raw
  /\ UNCHANGED <<sent, others>>

Select(s) ==
  /\ writer[s] = "select"
  /\ \/ /\ HasRoom(raw[s], Cap)
        /\ \E k \in IF s \in Pumped THEN Kinds ELSE {"keep"} :
             LET i == [n |-> Len(sent[s]) + 1, kind |-> k]
             IN  /\ raw' = [raw EXCEPT ![s] = Sent(@, i)]
                 /\ sent' = [sent EXCEPT ![s] = Append(@, i)]
        /\ writer' = [writer EXCEPT ![s] = "idle"]
     \/ /\ raw[s].closed
        /\ raw' = [raw EXCEPT ![s] = closeSend(@)]
        /\ writer' = [writer EXCEPT ![s] = "done"]
        /\ UNCHANGED sent
  /\ UNCHANGED others

-----------------------------------------------------------------------------
\* The goroutine of toStream.
rest == <<named, writer, sent, nonClosed, reader, delivered>>

\* Mutant: recovers a panic and sends nothing.
PumpRecvSwallows(s) ==
  /\ pump[s] = "recv"
  /\ \/ /\ HasItem(raw[s])
        /\ LET i == Head(raw[s].items)
           IN  /\ pump' = [pump EXCEPT ![s] = CASE i.kind = "keep"  -> "send"
                                                [] i.kind = "drop"  -> "recv"
                                                [] i.kind = "panic" -> "close"]
               /\ holding' = [holding EXCEPT ![s] = IF i.kind = "keep" THEN i ELSE Failure]
        /\ raw' = [raw EXCEPT ![s] = Received(@)]
     \/ /\ AtEnd(raw[s])
        /\ pump' = [pump EXCEPT ![s] = "close"]
        /\ UNCHANGED <<raw, holding>>
  /\ UNCHANGED <<merged, rest>>

\* r.recv(): a dropped item makes streamReaderWithConvert receive again.  EOF
\* leaves the loop; a panic is recovered and sent as an error.
PumpRecv(s) ==
  /\ pump[s] = "recv"
  /\ \/ /\ HasItem(raw[s])
        /\ LET i == Head(raw[s].items)
           IN  /\ pump' = [pump EXCEPT ![s] = CASE i.kind = "keep"  -> "send"
                                                [] i.kind = "drop"  -> "recv"
                                                [] i.kind = "panic" -> "report"]
               /\ holding' = [holding EXCEPT ![s] = IF i.kind = "keep" THEN i ELSE Failure]
        /\ raw' = [raw EXCEPT ![s] = Received(@)]
     \/ /\ AtEnd(raw[s])
        /\ pump' = [pump EXCEPT ![s] = "close"]
        /\ UNCHANGED <<raw, holding>>
  /\ UNCHANGED <<merged, rest>>

\* The first select of ret.send, in the loop ("send") or in the deferred
\* function ("report").
PumpSend(s) ==
  /\ pump[s] \in {"send", "report"}
  /\ pump' = [pump EXCEPT ![s] = IF merged[s].closed THEN "close"
                                ELSE IF @ = "send" THEN "select" ELSE "lastselect"]
  /\ UNCHANGED <<raw, merged, holding, rest>>

PumpSelect(s) ==
  /\ pump[s] \in {"select", "lastselect"}
  /\ \/ /\ HasRoom(merged[s], PumpCap)
        /\ merged' = [merged EXCEPT ![s] = Sent(@, holding[s])]
        /\ pump' = [pump EXCEPT ![s] = IF @ = "select" THEN "recv" ELSE "close"]
     \/ /\ merged[s].closed
        /\ pump' = [pump EXCEPT ![s] = "close"]
        /\ UNCHANGED merged
  /\ holding' = [holding EXCEPT ![s] = Failure]
  /\ UNCHANGED <<raw, rest>>

\* ret.closeSend(); r.close()
PumpClose(s) ==
  /\ pump[s] = "close"
  /\ merged' = [merged EXCEPT ![s] = closeSend(@)]
  /\ raw' = [raw EXCEPT ![s] = closeRecv(@)]
  /\ pump' = [pump EXCEPT ![s] = "done"]
  /\ UNCHANGED <<holding, rest>>

-----------------------------------------------------------------------------
\* The merged reader.
threads == <<named, writer, sent, pump, holding>>

\* msr.sts
stream(s) == IF s \in Pumped THEN merged[s] ELSE raw[s]

\* Its first item is taken.
Takes(s) ==
  IF s \in Pumped
  THEN merged' = [merged EXCEPT ![s] = Received(@)] /\ UNCHANGED raw
  ELSE raw' = [raw EXCEPT ![s] = Received(@)] /\ UNCHANGED merged

Recv ==
  /\ reader = "idle"
  /\ reader' = "recv"
  /\ UNCHANGED <<raw, merged, nonClosed, delivered, threads>>

\* The select of recv chooses an item.
Receive(s) ==
  /\ reader = "recv"
  /\ s \in nonClosed /\ HasItem(stream(s))
  /\ delivered' = Append(delivered, <<s, Head(stream(s).items)>>)
  /\ Takes(s)
  /\ reader' = "idle"
  /\ UNCHANGED <<nonClosed, threads>>

\* The select chooses a stream that ended: a named reader reports it, any
\* other selects again.
Ends(s) ==
  /\ reader = "recv"
  /\ s \in nonClosed /\ AtEnd(stream(s))
  /\ nonClosed' = nonClosed \ {s}
  /\ IF named
     THEN delivered' = Append(delivered, <<s, SourceEOF>>) /\ reader' = "idle"
     ELSE UNCHANGED <<delivered, reader>>
  /\ UNCHANGED <<raw, merged, threads>>

EndOfAll ==
  /\ reader = "recv"
  /\ nonClosed = {}
  /\ reader' = "eof"
  /\ UNCHANGED <<raw, merged, nonClosed, delivered, threads>>

\* close(): every stream, ended or not.
Close ==
  /\ reader \in {"idle", "eof"}
  /\ reader' = "closed"
  /\ raw' = [s \in Source |-> IF s \in Pumped THEN raw[s] ELSE closeRecv(raw[s])]
  /\ merged' = [s \in Pumped |-> closeRecv(merged[s])]
  /\ UNCHANGED <<nonClosed, delivered, threads>>

Writing(s) == Send(s) \/ Select(s)

Pumping(s) == PumpRecv(s) \/ PumpSend(s) \/ PumpSelect(s) \/ PumpClose(s)

\* Every goroutine before the reader goes on while it can.
MergeFairness ==
  /\ \A s \in Source : WF_mergeVars(Writing(s))
  /\ \A s \in Pumped : WF_mergeVars(Pumping(s))

-----------------------------------------------------------------------------
\* The items of a source that come out of it: those the convert function
\* keeps, up to the first it panics on, which comes out as an error.
Due(s) ==
  IF s \in Pumped
  THEN {k \in DOMAIN sent[s] : /\ sent[s][k].kind # "drop"
                               /\ \A l \in 1 .. (k - 1) : sent[s][l].kind # "panic"}
  ELSE DOMAIN sent[s]

Converted(s, k) == IF sent[s][k].kind = "panic" THEN Failure ELSE sent[s][k]

\* The first n that were delivered have item k of source s.
Came(s, k, n) == \E j \in 1 .. n : delivered[j] = <<s, Converted(s, k)>>

\* Whatever the select chooses, the chunks of one source come out in order,
\* converted, and without a gap (stream.go:513-549, 655-665).
InOrder ==
  \A i \in DOMAIN delivered :
    LET s == delivered[i][1]
    IN  delivered[i][2] # SourceEOF =>
          \E k \in Due(s) : /\ delivered[i][2] = Converted(s, k)
                            /\ \A l \in Due(s) : l < k <=> Came(s, l, i - 1)

\* A source leaves nonClosed only when all it sent was delivered: an end of
\* stream never overtakes an item, and a panic of the convert function is
\* delivered as an error before the end (stream.go:533-549, 642-652).
EndsAfterAll ==
  \A s \in Source \ nonClosed : \A k \in Due(s) : Came(s, k, Len(delivered))

\* A merge gives the chunks of each source in order and, before the end of
\* that source, all of them.
MergedWhole == InOrder /\ EndsAfterAll

\* Every goroutine before the reader has come to its end.
AllEnded ==
  /\ \A s \in Source : writer[s] = "done"
  /\ \A s \in Pumped : pump[s] = "done" /\ raw[s].closed

=============================================================================
