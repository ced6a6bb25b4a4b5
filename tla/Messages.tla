----------------------------- MODULE Messages -----------------------------
(***************************************************************************)
(* A stream of messages, or of arrays of messages, is read to its end and  *)
(* concatenated into one (compose/stream_concat.go, schema/message.go,     *)
(* internal/concat.go).  A node upstream that cannot stream has already    *)
(* concatenated some of the chunks; the readers differ in what they do     *)
(* with an empty stream, a single chunk and the end of one source of a     *)
(* merged stream.                                                          *)
(*                                                                         *)
(* A text is the sequence of the pieces it was put together from.  What may*)
(* be missing is a sequence of at most one element, and so is a result:    *)
(* <<>> is an error, or the panic of toSliceValue on a nil value.          *)
(***************************************************************************)
EXTENDS Naturals, Sequences, FiniteSets, SequencesExt

CONSTANT
  Streams  \* what may come: [reader, todo], with the reader "chunks" (of
           \* messages), "arrays" or "messages" (ConcatMessageStream), and
           \* todo the items [is, chunk] of the stream, where is is "chunk",
           \* "source" (the end of one source) or "error"

VARIABLE
  msgs  \* [reader, all, todo, got, out, state]; all are the chunks before
        \* any of them were concatenated

Ids == {"role", "name", "toolCallID", "toolName"}
Texts == {"content", "reasoning"}
Failed == <<>>

Pieces(seq, F(_)) == FlattenSeq([i \in DOMAIN seq |-> F(seq[i])])

(* The one value that is given, if the given ones agree.                   *)
Given(values) == SelectSeq(values, LAMBDA v : v # <<>>)
Agree(values) == Cardinality(Range(Given(values))) <= 1
First(values) == Head(Append(Given(values), <<>>))

----------------------------------------------------------------------------
(* Values of Extra: [type, val], the type "string", "number", "map",       *)
(* "struct" or "nil".                                                      *)

concatSliceValue(vals) ==
  LET type == vals[1].type
      filtered == SelectSeq(vals, LAMBDA v : v.val # <<>>)
  IN CASE type = "string" -> <<[type |-> type, val |-> Pieces(vals, LAMBDA v : v.val)]>>
       [] type = "number" -> <<Last(vals)>>
       [] Len(filtered) > 1 -> Failed
       [] OTHER -> <<IF filtered = <<>> THEN vals[1] ELSE filtered[1]>>

RECURSIVE concatMaps(_)
concatMaps(ms) ==
  LET vals(key) == LET with == SelectSeq(ms, LAMBDA m : key \in DOMAIN m)
                   IN [i \in DOMAIN with |-> with[i][key]]
      one(v) == CASE Len(v) = 1 -> v
                  [] v[1].type = "nil" \/ \E i \in DOMAIN v : v[i].type # v[1].type -> Failed
                  [] v[1].type = "map" ->
                       LET r == concatMaps([i \in DOMAIN v |-> v[i].val])
                       IN [i \in DOMAIN r |-> [type |-> "map", val |-> r[i]]]
                  [] OTHER -> concatSliceValue(v)
      each == [key \in UNION {DOMAIN ms[i] : i \in DOMAIN ms} |-> one(vals(key))]
  IN IF Failed \in Range(each) THEN Failed
     ELSE <<[key \in DOMAIN each |-> each[key][1]]>>

concatExtra(extras) == IF Len(extras) = 1 THEN extras ELSE concatMaps(extras)

----------------------------------------------------------------------------
(* Tool calls: the ones without an index first, then by index.  The map of *)
(* the indices is walked in any order, and the result is sorted.           *)

callOf(chunks) ==
  [Head(chunks) EXCEPT !.id = First([i \in DOMAIN chunks |-> chunks[i].id]),
                       !.name = First([i \in DOMAIN chunks |-> chunks[i].name]),
                       !.args = Pieces(chunks, LAMBDA c : c.args)]

(* Mutant: a chunk belongs to a call by its id.                            *)
chunksById(chunks, index) ==
  LET call == SelectSeq(chunks, LAMBDA c : c.index = <<index>>)
  IN SelectSeq(call, LAMBDA c : c.id = Head(call).id)

chunksOf(chunks, index) == SelectSeq(chunks, LAMBDA c : c.index = <<index>>)

concatToolCalls(chunks) ==
  LET indices == SetToSortSeq({c.index[1] : c \in {d \in Range(chunks) : d.index # <<>>}}, <)
      calls == [i \in DOMAIN indices |-> chunksOf(chunks, indices[i])]
  IN IF \E v \in Range(calls), f \in {"id", "name"} : ~Agree([k \in DOMAIN v |-> v[k][f]])
     THEN Failed
     ELSE <<SelectSeq(chunks, LAMBDA c : c.index = <<>>) \o [i \in DOMAIN calls |-> callOf(calls[i])]>>

(* Neighbouring parts of text, or of audio in base64, become one.          *)
mergeable(p, q) == p.type = q.type /\ p.type \in {"text", "audio"}

concatAssistantMultiContent(parts) ==
  FoldLeft(LAMBDA merged, p :
             IF merged # <<>> /\ mergeable(Last(merged), p)
             THEN [merged EXCEPT ![Len(merged)].body = @ \o p.body,
                                 ![Len(merged)].mime = IF @ = <<>> THEN p.mime ELSE @]
             ELSE Append(merged, p),
           <<>>, parts)

----------------------------------------------------------------------------
(* A chunk is a sequence of messages, each of which may be nil: of one     *)
(* message unless it is an array.                                          *)

NoMeta == [finish |-> <<>>, tokens |-> 0, logProbs |-> <<>>]
EmptyMessage ==
  [ids |-> [f \in Ids |-> <<>>], texts |-> [f \in Texts |-> <<>>], calls |-> <<>>,
   extra |-> <<>>, parts |-> <<>>, meta |-> NoMeta]

concatMeta(metas) ==
  [finish |-> LET given == Given([i \in DOMAIN metas |-> metas[i].finish])
              IN IF given = <<>> THEN <<>> ELSE Last(given),
   tokens |-> FoldLeft(LAMBDA max, m : IF m.tokens > max THEN m.tokens ELSE max, 0, metas),
   logProbs |-> Pieces(metas, LAMBDA m : m.logProbs)]

ConcatMessages(list) ==
  LET ms == [i \in DOMAIN list |-> list[i][1]]
      extras == SelectSeq([i \in DOMAIN ms |-> ms[i].extra], LAMBDA e : e # <<>>)
      extra == IF extras = <<>> THEN <<<<>>>> ELSE concatExtra(extras)
      calls == concatToolCalls(Pieces(ms, LAMBDA m : m.calls))
  IN IF \/ \E i \in DOMAIN list : list[i] = <<>>
        \/ \E f \in Ids : ~Agree([i \in DOMAIN ms |-> ms[i].ids[f]])
        \/ calls = Failed
        \/ extra = Failed
     THEN Failed
     ELSE <<[ids |-> [f \in Ids |-> First([i \in DOMAIN ms |-> ms[i].ids[f]])],
             texts |-> [f \in Texts |-> Pieces(ms, LAMBDA m : m.texts[f])],
             calls |-> calls[1],
             extra |-> extra[1],
             parts |-> concatAssistantMultiContent(Pieces(ms, LAMBDA m : m.parts)),
             meta |-> concatMeta([i \in DOMAIN ms |-> ms[i].meta])]>>

ConcatMessageArray(mas) ==
  LET one(list) == IF Len(list) <= 1 THEN <<First(list)>> ELSE Given(<<ConcatMessages(list)>>)
      ret == [i \in DOMAIN mas[1] |-> one(Given([k \in DOMAIN mas |-> mas[k][i]]))]
  IN IF (\E k \in DOMAIN mas : Len(mas[k]) # Len(mas[1])) \/ Failed \in Range(ret) THEN Failed
     ELSE <<[i \in DOMAIN ret |-> ret[i][1]]>>

(* ConcatItems, with the functions that are registered for the two types.  *)
ConcatItems(reader, chunks) ==
  IF reader = "arrays" THEN ConcatMessageArray(chunks)
  ELSE Given(<<Given(<<ConcatMessages([i \in DOMAIN chunks |-> chunks[i][1]])>>)>>)

----------------------------------------------------------------------------
NoStream == msgs = [state |-> "none"]

StreamInit ==
  msgs \in {[reader |-> s.reader, all |-> s.todo, todo |-> s.todo, got |-> <<>>,
             out |-> <<>>, state |-> "read"] : s \in Streams}

(* A node upstream has passed on two chunks as one, or failed to.          *)
ConcatUpstream(i) ==
  /\ msgs.state = "read" /\ i \in 1 .. Len(msgs.todo) - 1
  /\ msgs.todo[i].is = "chunk" /\ msgs.todo[i + 1].is = "chunk"
  /\ LET items == ConcatItems(msgs.reader, <<msgs.todo[i].chunk, msgs.todo[i + 1].chunk>>)
         item == IF items = Failed THEN [is |-> "error", chunk |-> <<>>]
                 ELSE [is |-> "chunk", chunk |-> items[1]]
     IN msgs' = [msgs EXCEPT !.todo = SubSeq(@, 1, i - 1) \o <<item>> \o SubSeq(@, i + 2, Len(@))]

(* concatStreamReader goes on when one source ends; ConcatMessageStream has*)
(* no case for it.                                                         *)
RecvChunk ==
  /\ msgs.state = "read" /\ msgs.todo # <<>>
  /\ LET item == Head(msgs.todo)
         read == [msgs EXCEPT !.todo = Tail(@)]
     IN msgs' = CASE item.is = "chunk" -> [read EXCEPT !.got = Append(@, item.chunk)]
                  [] item.is = "source" /\ msgs.reader # "messages" -> read
                  [] OTHER -> [read EXCEPT !.state = "failed"]

RecvEnd ==
  /\ msgs.state = "read" /\ msgs.todo = <<>>
  /\ LET r == CASE msgs.reader = "messages" /\ msgs.got = <<>> -> <<<<<<EmptyMessage>>>>>>
                [] msgs.reader # "messages" /\ Len(msgs.got) <= 1 -> msgs.got
                [] OTHER -> ConcatItems(msgs.reader, msgs.got)
     IN msgs' = IF r = Failed THEN [msgs EXCEPT !.state = "failed"]
                ELSE [msgs EXCEPT !.out = r[1], !.state = "done"]

MessagesNext == (\E i \in DOMAIN msgs.todo : ConcatUpstream(i)) \/ RecvChunk \/ RecvEnd

----------------------------------------------------------------------------
(* What the chunks say, all of them.                                       *)
AllChunks == LET items == SelectSeq(msgs.all, LAMBDA x : x.is = "chunk")
             IN [i \in DOMAIN items |-> items[i].chunk]
Column(i) == Given([k \in DOMAIN AllChunks |-> AllChunks[k][i]])
Calls(list) == Pieces(list, LAMBDA m : m[1].calls)
Units(parts) == Pieces(parts, LAMBDA p : [i \in DOMAIN p.body |-> <<p.type, p.body[i]>>])

(* The pieces of every value, by the path to it.                           *)
RECURSIVE Flat(_)
Flat(extra) ==
  UNION {IF extra[key].type # "map" THEN {[path |-> <<key>>, value |-> extra[key]]}
         ELSE {[v EXCEPT !.path = <<key>> \o @] : v \in Flat(extra[key].val)} :
         key \in DOMAIN extra}
ValuesAt(list, path) ==
  Pieces(list, LAMBDA m : LET v == {x \in Flat(m[1].extra) : x.path = path}
                          IN IF v = {} THEN <<>> ELSE <<(CHOOSE x \in v : TRUE).value>>)
Clash(list) ==
  \/ \E f \in Ids : ~Agree([k \in DOMAIN list |-> list[k][1].ids[f]])
  \/ \E c, d \in Range(Calls(list)) :
       /\ c.index # <<>> /\ c.index = d.index
       /\ ~Agree(<<c.id, d.id>>) \/ ~Agree(<<c.name, d.name>>)
  \/ \E i, k \in DOMAIN list : i < k /\
       \E x \in Flat(list[i][1].extra), y \in Flat(list[k][1].extra) :
         \/ x.path = y.path /\ (x.value.type # y.value.type \/ x.value.type = "nil")
         \/ x.path = y.path /\ x.value.type = "struct" /\ <<>> \notin {x.value.val, y.value.val}
         \/ x.path # y.path /\ (IsPrefix(x.path, y.path) \/ IsPrefix(y.path, x.path))

(* m says what the chunks of the list say, each in the order they came.    *)
Says(m, list) ==
  /\ \A f \in Ids : m.ids[f] = First([k \in DOMAIN list |-> list[k][1].ids[f]])
  /\ \A f \in Texts : m.texts[f] = Pieces(list, LAMBDA c : c[1].texts[f])
  /\ Units(m.parts) = Units(Pieces(list, LAMBDA c : c[1].parts))
  /\ SelectSeq(m.calls, LAMBDA c : c.index = <<>>)
       = SelectSeq(Calls(list), LAMBDA c : c.index = <<>>)
  /\ \A c \in Range(Calls(list)) : c.index # <<>> =>
       \E d \in Range(m.calls) :
         /\ d.index = c.index
         /\ d.args = Pieces(SelectSeq(Calls(list), LAMBDA e : e.index = c.index), LAMBDA e : e.args)
         /\ c.id # <<>> => d.id = c.id
  /\ \A i, k \in DOMAIN m.calls : i < k /\ Len(list) > 1 =>
       \/ m.calls[i].index = <<>>
       \/ m.calls[k].index # <<>> /\ m.calls[i].index[1] < m.calls[k].index[1]
  /\ \A x \in Flat(m.extra) :
       LET v == ValuesAt(list, x.path)
       IN CASE x.value.type = "string" -> x.value.val = Pieces(v, LAMBDA y : y.val)
            [] x.value.type = "number" -> x.value = Last(v)
            [] OTHER -> x.value \in Range(v)
  /\ \A c \in Range(list) : \A x \in Flat(c[1].extra) :
       \E y \in Flat(m.extra) : y.path = x.path
  /\ \A c \in Range(list) : m.meta.tokens >= c[1].meta.tokens
  /\ m.meta.logProbs = Pieces(list, LAMBDA c : c[1].meta.logProbs)

(* Whatever the chunks were put together in before, and wherever one source*)
(* of the stream ended among them, the message says all that they say and  *)
(* in their order: the arguments of concurrent calls do not mix            *)
(* (message.go:877-959). It fails only if the stream did, if it was empty, *)
(* or if two chunks disagree.                                              *)
NothingLostInChunks ==
  /\ msgs.state = "done" =>
       IF AllChunks = <<>> THEN msgs.out = <<<<EmptyMessage>>>>
       ELSE \A i \in DOMAIN msgs.out :
              /\ (msgs.out[i] = <<>>) = (Column(i) = <<>>)
              /\ msgs.out[i] # <<>> => Says(msgs.out[i][1], Column(i)) /\ ~Clash(Column(i))
  /\ msgs.state = "failed" =>
       \/ \E x \in Range(msgs.all) : x.is = "error" \/ (x.is = "source" /\ msgs.reader = "messages")
       \/ AllChunks = <<>> /\ msgs.reader # "messages"
       \/ \E c \in Range(AllChunks) : Len(c) # Len(AllChunks[1])
       \/ \E c \in Range(AllChunks) : c = <<<<>>>>
       \/ \E i \in DOMAIN AllChunks[1] : Clash(Column(i))
============================================================================
