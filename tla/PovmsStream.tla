----------------------------- MODULE PovmsStream -----------------------------
(***************************************************************************)
(* The byte stream a message crosses between threads in: POVMSStream_Size, *)
(* which the buffer is allocated from, POVMSStream_Write and               *)
(* POVMSStream_Read.  A stream is a sequence of written words, each with   *)
(* its bytes (w) and content (v); the bytes' order within a word, the      *)
(* header of fixed length in front of the object, addresses and raw data   *)
(* are not modelled.                                                       *)
(***************************************************************************)
EXTENDS PovmsData

\* A variant with an error: the terminator, which is not written, is counted.
RECURSIVE StreamSizeInMemory(_, _)
StreamSizeInMemory(h, attr) ==
    8 + CASE attr.type = "Object" ->
                Loop(LAMBDA sum, n: sum + 4 + StreamSizeInMemory(h, h[n].data), 0,
                     Chain(h, attr.root))
          [] attr.type = "List" ->
                Loop(LAMBDA sum, item: sum + StreamSizeInMemory(h, item), 0, attr.items)
          [] OTHER -> attr.size

RECURSIVE StreamSize(_, _)
StreamSize(h, attr) ==
    8 + CASE attr.type = "Object" ->
                Loop(LAMBDA sum, n: sum + 4 + StreamSize(h, h[n].data), 0,
                         Chain(h, attr.root))
          [] attr.type = "List" ->
                Loop(LAMBDA sum, item: sum + StreamSize(h, item), 0, attr.items)
          [] OTHER -> Width(attr.type) * Len(attr.data)

-----------------------------------------------------------------------------
(* out: the words written, ret: their bytes, max: the bytes still free.    *)
(* What does not fit is not written.                                       *)
Writer(max) == [out |-> <<>>, ret |-> 0, max |-> max]
PutIf(room, st, w, v) ==
    IF st.max < room THEN st
    ELSE [out |-> Append(st.out, [w |-> w, v |-> v]), ret |-> st.ret + w, max |-> st.max - w]
Put(st, w, v) == PutIf(w, st, w, v)

\* A truth value is written without a look at the room left.
PutBool(st, v) == [st EXCEPT !.out = Append(@, [w |-> 1, v |-> v]), !.ret = @ + 1]

WriteValue(attr, st) ==
    CASE attr.type \in {"CString", "UCS2String"} ->
            \* the room needed is counted in characters
            PutIf(Len(attr.data), Put(st, 4, attr.size - Terminator(attr.type)),
                  Width(attr.type) * Len(attr.data), attr.data)
      [] attr.type = "Bool" -> PutBool(Put(st, 4, 1), attr.data[1])
      [] attr.type \in {"Int", "Float", "Type", "Long"} ->
            Put(Put(st, 4, Width(attr.type)), Width(attr.type), attr.data[1])
      [] OTHER ->
            Loop(LAMBDA acc, v: Put(acc, Width(attr.type), v),
                     Put(st, 4, attr.size \div Width(attr.type)), attr.data)

RECURSIVE StreamWrite(_, _, _)
StreamWrite(h, attr, st) ==
    LET typed == Put(st, 4, attr.type) IN
    CASE attr.type = "Object" ->
            Loop(LAMBDA acc, n: StreamWrite(h, h[n].data, Put(acc, 4, h[n].key)),
                     Put(typed, 4, attr.size), Chain(h, attr.root))
      [] attr.type = "List" ->
            Loop(LAMBDA acc, item: StreamWrite(h, item, acc),
                     Put(typed, 4, attr.size), attr.items)
      [] OTHER -> WriteValue(attr, typed)

-----------------------------------------------------------------------------
(* in: the words not yet read, ret: the bytes read, v: the last word, obj:  *)
(* the attribute read.  A word that is missing leaves v as it was.          *)
Reader(h, in, max) ==
    [heap |-> h, in |-> in, ret |-> 0, max |-> max, v |-> <<>>, obj |-> AttrNew]
TakeIf(room, st, w) ==
    IF st.max < room \/ st.in = <<>> THEN st
    ELSE [st EXCEPT !.in = Tail(@), !.ret = @ + w, !.max = @ - w, !.v = Head(st.in).v]
Take(st, w) == TakeIf(w, st, w)
TakeBool(st) == [st EXCEPT !.in = Tail(@), !.ret = @ + 1, !.v = Head(st.in).v]

\* An attribute of n words, or of a string's n bytes.
ReadValue(type, n, st) ==
    CASE type \in {"CString", "UCS2String"} ->
            LET s == TakeIf(n \div Width(type), st, n) IN [s EXCEPT !.obj = AttrSet(type, s.v)]
      [] type = "Bool" ->
            LET s == TakeBool(st) IN [s EXCEPT !.obj = AttrSet(type, <<s.v>>)]
      [] type \in {"Int", "Float", "Type", "Long"} ->
            LET s == Take(st, Width(type)) IN [s EXCEPT !.obj = AttrSet(type, <<s.v>>)]
      [] OTHER ->
            Loop(LAMBDA acc, i: LET s == Take(acc, Width(type)) IN
                                    [s EXCEPT !.obj = AttrSet(type, Append(acc.obj.data, s.v))],
                     [st EXCEPT !.obj = AttrSet(type, <<>>)], [i \in 1..n |-> i])

(* Nodes are put in front of those read before: an object arrives with its  *)
(* nodes in reverse.                                                       *)
RECURSIVE StreamRead(_)
StreamRead(st) ==
    LET typed == Take(st, 4)
        type == typed.v
        counted == Take(typed, 4)
        n == counted.v
        each == [i \in 1..n |-> i]
    IN  CASE type = "Object" ->
                Loop(LAMBDA acc, i:
                            LET cur == Link(acc.heap, acc.obj, "read", AttrNew)
                                a == cur.obj.root
                                keyed == Take([acc EXCEPT !.heap = cur.heap], 4)
                                sub == StreamRead(keyed)
                            IN  [sub EXCEPT !.heap[a].key = keyed.v, !.heap[a].data = sub.obj,
                                            !.obj = cur.obj],
                         [counted EXCEPT !.obj = EmptyObject], each)
          [] type = "List" ->
                Loop(LAMBDA acc, i: LET sub == StreamRead(acc) IN
                                        [sub EXCEPT !.obj = ListAppend(acc.obj, sub.obj)],
                         [counted EXCEPT !.obj = ListNew], each)
          [] OTHER -> ReadValue(type, n, counted)

-----------------------------------------------------------------------------
\* What POVMS_Send writes for a message, and what the receiver makes of it.
Sent(h, obj) == StreamWrite(h, obj, Writer(StreamSize(h, obj)))
Received(h, wire) == StreamRead(Reader(h, wire.out, wire.ret))
=============================================================================
