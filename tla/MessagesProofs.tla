--------------------------- MODULE MessagesProofs ---------------------------
(***************************************************************************)
(* A frame that the proxy writes is readable, and the next reader gets the *)
(* message the router meant, for every frame a remote peer may write and   *)
(* every width of a byte and of a word.                                    *)
(***************************************************************************)
EXTENDS Messages, CodecProofs

\* First-order reasoning is enough for most leaves; the ones that need arithmetic, or
\* what the backend knows of sequences, cite SMT.
USE ZenonT(30)

----------------------------------------------------------------------------
(* Bodies *)

\* What a read of one unit takes.
LEMMA UnitRead ==
    ASSUME NEW s \in Seq(Unit), NEW x, ReadUnit(Cursor(x, s)).ok
    PROVE  \E a \in Unit, t \in Seq(Unit) :
              ReadUnit(Cursor(x, s)) = Cursor(a, t) /\ Len(s) = Len(t) + 1
<1>1. s # <<>>
  <2> SUFFICES ASSUME s = <<>> PROVE FALSE
    OBVIOUS
  <2>1. ReadUnit(Cursor(x, s)) = Failed
    BY ReadersAt
  <2> QED  BY <2>1, CursorLaws
<1>2. ReadUnit(Cursor(x, s)) = Cursor(Head(s), Tail(s))
  BY <1>1, ReadersAt
<1>3. Head(s) \in Unit /\ Tail(s) \in Seq(Unit) /\ Len(s) = Len(Tail(s)) + 1
  BY <1>1, SMTT(30)
<1> QED  BY <1>2, <1>3

\* What a read of n units takes.
LEMMA ExactRead ==
    ASSUME NEW s \in Seq(Unit), NEW x, NEW n \in Nat, ReadExact(Cursor(x, s), n).ok
    PROVE  \E w \in Seq(Unit), t \in Seq(Unit) :
              /\ ReadExact(Cursor(x, s), n) = Cursor(w, t)
              /\ Len(w) = n /\ Len(s) = Len(t) + n
<1>1. n <= Len(s)
  <2> SUFFICES ASSUME ~(n <= Len(s)) PROVE FALSE
    OBVIOUS
  <2>1. ReadExact(Cursor(x, s), n) = Failed
    BY CursorLaws DEF ReadExact
  <2> QED  BY <2>1, CursorLaws
<1> DEFINE w == SubSeq(s, 1, n)  t == SubSeq(s, n + 1, Len(s))
<1>2. ReadExact(Cursor(x, s), n) = Cursor(w, t)
  BY <1>1, CursorLaws DEF ReadExact
<1>3. n \in 0..Len(s) /\ Len(s) \in Nat
  BY <1>1, SMTT(30)
<1>4. w \in Seq(Unit) /\ t \in Seq(Unit) /\ Len(w) = n /\ Len(t) = Len(s) - n
  BY <1>3, CutConcat
<1> HIDE DEF w, t
<1>5. Len(s) = Len(t) + n
  BY <1>3, <1>4, SMTT(30)
<1> QED  BY <1>2, <1>4, <1>5

\* What a read of a length takes: at least as much as the length takes when written.
LEMMA LengthRead ==
    ASSUME NEW s \in Seq(Unit), NEW x, ReadVlqLength(Cursor(x, s)).ok
    PROVE  \E n \in Lengths, t \in Seq(Unit) :
              /\ ReadVlqLength(Cursor(x, s)) = Cursor(n, t)
              /\ Len(WriteVlq[n]) + Len(t) <= Len(s)
<1> DEFINE r == ReadVlqLength(Cursor(x, s))
           q == ReadVlqLength(Cursor(x, s \o <<>>))
<1>1. r # Failed
  <2> HIDE DEF r
  <2> QED  BY CursorLaws DEF r
<1>2. Extends(r, q, s, <<>>, Lengths) /\ Len(WriteVlq[r.value]) + Len(r.rest) <= Len(s)
  BY <1>1, LengthExtends, EmptySeq
<1> HIDE DEF r, q
<1>3. PICK n \in Lengths, t \in Seq(Unit) : r = Cursor(n, t)
  BY <1>1, <1>2 DEF Extends
<1>4. r.value = n /\ r.rest = t
  BY <1>3, CursorLaws
<1> QED  BY <1>2, <1>3, <1>4 DEF r

\* An id list, and that it takes n units to write.
IdList(content, n) ==
    /\ content.modifier_type \in Unit
    /\ content.ids \in Seq(Unit)
    /\ Len(content.ids) \in Lengths
    /\ content = [modifier_type |-> content.modifier_type, ids |-> content.ids]
    /\ 1 + Len(WriteVlq[Len(content.ids)]) + Len(content.ids) = n

\* parse_inv_body reads an id list, from at least as many units as it takes to write it.
LEMMA InvBodyParsed ==
    ASSUME NEW body \in Seq(Unit), ParseInvBody(body).ok
    PROVE  \E n \in 0..Len(body) : IdList(ParseInvBody(body).value, n)
<1> DEFINE type == ReadUnit(Start(body))
           count == ReadVlqLength(type)
           ids == IF count.ok THEN ReadExact(count, count.value) ELSE Failed
           content == [modifier_type |-> type.value, ids |-> ids.value]
<1>1. ids.ok /\ ParseInvBody(body) = Cursor(content, ids.rest)
  <2>1. ParseInvBody(body) = IF ids.ok THEN Cursor(content, ids.rest) ELSE Failed
    BY DEF ParseInvBody
  <2> HIDE DEF ids, content
  <2> QED  BY <2>1, CursorLaws
<1>2. count.ok
  <2> HIDE DEF count
  <2> QED  BY <1>1, CursorLaws
<1>3. type # Failed
  <2> HIDE DEF type
  <2> QED  BY <1>2, CursorLaws
<1>4. type.ok
  <2> SUFFICES ASSUME ~type.ok PROVE type = Failed
    BY <1>3
  <2> QED  BY CursorLaws, ReadersAt, SMTT(30) DEF Start
<1>5. PICK a \in Unit, s \in Seq(Unit) : type = Cursor(a, s) /\ Len(body) = Len(s) + 1
  BY <1>4, UnitRead, SMTT(30) DEF Start
<1>6. type.value = a
  <2> HIDE DEF type
  <2> QED  BY <1>5, CursorLaws
<1>7. PICK k \in Lengths, t \in Seq(Unit) :
         count = Cursor(k, t) /\ Len(WriteVlq[k]) + Len(t) <= Len(s)
  <2> HIDE DEF type
  <2> QED  BY <1>2, <1>5, LengthRead
<1> HIDE DEF count, type
<1>8. count.value = k
  BY <1>7, CursorLaws
<1>9. ids = ReadExact(Cursor(k, t), k) /\ ReadExact(Cursor(k, t), k).ok
  BY <1>1, <1>2, <1>7, <1>8
<1>10. k \in Nat
  BY LengthsAreWords
<1>11. PICK w \in Seq(Unit), rest \in Seq(Unit) :
          ids = Cursor(w, rest) /\ Len(w) = k /\ Len(t) = Len(rest) + k
  <2> HIDE DEF ids
  <2> QED  BY <1>9, <1>10, ExactRead, SMTT(30)
<1> HIDE DEF ids
<1>12. ids.value = w
  BY <1>11, CursorLaws
<1>13. content.modifier_type = a /\ content.ids = w
         /\ content = [modifier_type |-> content.modifier_type, ids |-> content.ids]
  BY <1>6, <1>12
<1> HIDE DEF content
<1>14. ParseInvBody(body).value = content
  BY <1>1, CursorLaws
<1>15. Len(WriteVlq[k]) \in Nat
  BY LengthReadBack, EmptySeq
<1> DEFINE m == Len(WriteVlq[k])
<1>16. 1 + m + k \in 0..Len(body)
  <2>1. Len(s) \in Nat /\ Len(t) \in Nat /\ Len(rest) \in Nat /\ Len(body) \in Nat
    BY SMTT(30)
  <2>2. m \in Nat /\ m + Len(t) <= Len(s)
    BY <1>7, <1>15
  <2> HIDE DEF m
  <2> QED  BY <1>5, <1>10, <1>11, <2>1, <2>2, SMTT(30)
<1>17. IdList(content, 1 + m + k)
  BY <1>11, <1>13 DEF IdList
<1> QED  BY <1>14, <1>16, <1>17

\* encode_inv_body is read back by parse_inv_body.
LEMMA InvBodyReadBack ==
    ASSUME NEW content, NEW n, IdList(content, n)
    PROVE  LET body == EncodeInvBody(content.modifier_type, content.ids)
           IN  /\ body \in Seq(Unit) /\ Len(body) = n
               /\ ParseInvBody(body) = Cursor(content, <<>>)
<1> DEFINE a == content.modifier_type
           ids == content.ids
           k == Len(ids)
           v == WriteVlq[k]
           body == <<a>> \o v \o ids
<1>1. a \in Unit /\ ids \in Seq(Unit) /\ k \in Lengths /\ 1 + Len(v) + k = n
        /\ content = [modifier_type |-> a, ids |-> ids]
  BY DEF IdList
<1> HIDE DEF a, ids
<1>2. v \in Seq(Unit) /\ k \in Nat /\ Len(v) \in Nat
  BY <1>1, LengthReadBack, EmptySeq, SMTT(30)
<1>3. ReadVlqLength(Cursor(a, v \o ids)) = Cursor(k, ids)
  BY <1>1, LengthReadBack
<1> HIDE DEF v
<1>4. <<a>> \in Seq(Unit) /\ Len(<<a>>) = 1
  BY <1>1, SMTT(30)
<1>5. v \o ids \in Seq(Unit) /\ Len(v \o ids) = Len(v) + k
  BY <1>1, <1>2, UnitsAssociative
<1>6. body = <<a>> \o (v \o ids)
  <2> DEFINE one == <<a>>
  <2>1. one \in Seq(Unit)
    BY <1>4
  <2> HIDE DEF one
  <2>2. (one \o v) \o ids = one \o (v \o ids)
    BY <1>1, <1>2, <2>1, UnitsAssociative
  <2> QED  BY <2>2 DEF one
<1>7. body \in Seq(Unit) /\ Len(body) = n
  <2> DEFINE w == v \o ids
  <2>1. <<a>> \o w \in Seq(Unit) /\ Len(<<a>> \o w) = 1 + Len(w)
    <3> HIDE DEF w
    <3> QED  BY <1>1, <1>5, ConsLaws, SMTT(30) DEF w
  <2> HIDE DEF body
  <2> QED  BY <1>1, <1>2, <1>5, <1>6, <2>1, SMTT(30)
<1>8. ReadUnit(Start(body)) = Cursor(a, v \o ids)
  <2> HIDE DEF body
  <2> QED  BY <1>1, <1>5, <1>6, UnitReadBack DEF Start
<1>9. ids \o <<>> = ids /\ <<>> \in Seq(Unit)
  BY <1>1, SMTT(30)
<1>10. ReadExact(Cursor(k, ids), k) = Cursor(ids, <<>>)
  BY <1>1, <1>9, ExactReadBack
<1> DEFINE type == ReadUnit(Start(body))
           count == ReadVlqLength(type)
           list == IF count.ok THEN ReadExact(count, count.value) ELSE Failed
<1>11. type.value = a /\ count = Cursor(k, ids)
  <2> HIDE DEF body
  <2> QED  BY <1>3, <1>8, CursorLaws
<1> HIDE DEF type, count, body
<1>12. list = Cursor(ids, <<>>)
  <2>1. count.ok /\ count.value = k
    BY <1>11, CursorLaws
  <2> QED  BY <1>10, <1>11, <2>1
<1>13. list.ok /\ list.value = ids /\ list.rest = <<>>
  <2> HIDE DEF list
  <2> QED  BY <1>12, CursorLaws
<1>14. ParseInvBody(body) = Cursor(content, <<>>)
  <2>1. ParseInvBody(body) = IF list.ok
                             THEN Cursor([modifier_type |-> type.value, ids |-> list.value],
                                         list.rest)
                             ELSE Failed
    BY DEF ParseInvBody, type, count
  <2> HIDE DEF list
  <2> QED  BY <1>1, <1>11, <1>13, <2>1
<1>15. EncodeInvBody(a, ids) = body
  BY DEF EncodeInvBody, body, v
<1> QED  BY <1>7, <1>14, <1>15 DEF a, ids

\* A list of modifiers, each of which a response can carry alone within n units.
ModifierList(content, n) ==
    /\ content.modifier_type \in Unit
    /\ content.modifiers \in Seq(Writable)
    /\ Len(content.modifiers) \in Lengths
    /\ content = [modifier_type |-> content.modifier_type, modifiers |-> content.modifiers]
    /\ \A i \in 1..Len(content.modifiers) : 2 + Len(WriteBlock(content.modifiers[i])) <= n

\* parse_modifier_response_body reads a list of modifiers, and a response with any one
\* of them is not longer than the body.
LEMMA ResponseBodyParsed ==
    ASSUME NEW body \in Seq(Unit), ParseModifierResponseBody(body).ok
    PROVE  ModifierList(ParseModifierResponseBody(body).value, Len(body))
<1> DEFINE type == ReadUnit(Start(body))
           count == ReadVlqLength(type)
           list == ReadBlocks[count.value][count.rest]
           content == [modifier_type |-> type.value, modifiers |-> list.blocks]
<1>1. count.ok /\ list.missing = 0 /\ ParseModifierResponseBody(body) = Cursor(content, list.rest)
  <2>1. ParseModifierResponseBody(body) =
           IF count.ok /\ list.missing = 0 THEN Cursor(content, list.rest) ELSE Failed
    BY DEF ParseModifierResponseBody
  <2> HIDE DEF count, list, content
  <2> QED  BY <2>1, CursorLaws
<1>2. type # Failed
  <2> HIDE DEF type
  <2> QED  BY <1>1, CursorLaws
<1>3. type.ok
  <2> SUFFICES ASSUME ~type.ok PROVE type = Failed
    BY <1>2
  <2> QED  BY CursorLaws, ReadersAt, SMTT(30) DEF Start
<1>4. PICK a \in Unit, s \in Seq(Unit) : type = Cursor(a, s) /\ Len(body) = Len(s) + 1
  BY <1>3, UnitRead DEF Start
<1>5. type.value = a
  <2> HIDE DEF type
  <2> QED  BY <1>4, CursorLaws
<1>6. PICK k \in Lengths, t \in Seq(Unit) :
         count = Cursor(k, t) /\ Len(WriteVlq[k]) + Len(t) <= Len(s)
  <2> HIDE DEF type
  <2> QED  BY <1>1, <1>4, LengthRead
<1> HIDE DEF count, type
<1>7. count.value = k /\ count.rest = t
  BY <1>6, CursorLaws
<1>8. k \in Nat /\ k \in Word
  BY LengthsAreWords
<1>9. list = ReadBlocks[k][t] /\ ReadBlocks[k][t].missing = 0
  BY <1>1, <1>7
<1>10. AllRead(list, ReadBlocks[k][t \o <<>>], k, t, <<>>)
  <2> HIDE DEF list
  <2> QED  BY <1>8, <1>9, BlocksExtend, EmptySeq
<1> HIDE DEF list
<1> DEFINE ms == list.blocks
<1>11. ms \in Seq(Writable) /\ Len(ms) = k /\ list.rest \in Seq(Unit)
         /\ \A i \in 1..k : Len(WriteBlock(ms[i])) + Len(list.rest) <= Len(t)
  BY <1>10 DEF AllRead
<1> HIDE DEF ms
<1>12. content.modifier_type = a /\ content.modifiers = ms
         /\ content = [modifier_type |-> content.modifier_type, modifiers |-> content.modifiers]
  BY <1>5 DEF ms
<1> HIDE DEF content
<1>13. ParseModifierResponseBody(body).value = content
  BY <1>1, CursorLaws
<1>14. Len(WriteVlq[k]) \in Nat \ {0}
  BY <1>8, VlqReadBack, EmptySeq, GroupsHoldWord, SMTT(30)
<1>15. ASSUME NEW i \in 1..k PROVE 2 + Len(WriteBlock(ms[i])) <= Len(body)
  <2> DEFINE m == Len(WriteVlq[k])  w == Len(WriteBlock(ms[i]))
  <2>1. Len(s) \in Nat /\ Len(t) \in Nat /\ Len(list.rest) \in Nat /\ Len(body) \in Nat
    BY <1>11, SMTT(30)
  <2>2. m \in Nat /\ m > 0 /\ m + Len(t) <= Len(s)
    BY <1>6, <1>14, SMTT(30)
  <2>3. ms[i] \in Writable
    BY <1>11, SMTT(30)
  <2>4. WriteBlock(ms[i]) \in Seq(Unit)
    BY <2>3, BlockReadBack, EmptySeq
  <2>5. w \in Nat /\ w + Len(list.rest) <= Len(t)
    BY <1>11, <2>4, SMTT(30)
  <2> HIDE DEF m, w
  <2>6. 2 + w <= Len(body)
    BY <1>4, <2>1, <2>2, <2>5, SMTT(30)
  <2> QED  BY <2>6 DEF w
<1> QED  BY <1>11, <1>12, <1>13, <1>15 DEF ModifierList

\* encode_modifier_response_body is read back by parse_modifier_response_body.
LEMMA ResponseBodyReadBack ==
    ASSUME NEW content, NEW n, ModifierList(content, n)
    PROVE  LET body == EncodeModifierResponseBody(content.modifier_type, content.modifiers)
           IN  /\ body \in Seq(Unit)
               /\ Len(body) = 1 + Len(WriteVlq[Len(content.modifiers)])
                                + Len(WriteBlocks(content.modifiers))
               /\ ParseModifierResponseBody(body) = Cursor(content, <<>>)
<1> DEFINE a == content.modifier_type
           ms == content.modifiers
           k == Len(ms)
           v == WriteVlq[k]
           bs == WriteBlocks(ms)
           body == <<a>> \o v \o bs
<1>1. a \in Unit /\ ms \in Seq(Writable) /\ k \in Lengths
        /\ content = [modifier_type |-> a, modifiers |-> ms]
  BY DEF ModifierList
<1> HIDE DEF a, ms
<1>2. v \in Seq(Unit) /\ k \in Nat /\ Len(v) \in Nat
  <2>1. k \in Nat /\ <<>> \in Seq(Unit)
    BY <1>1, LengthsAreWords, EmptySeq
  <2> HIDE DEF k
  <2> QED  BY <1>1, <2>1, LengthReadBack
<1>3. bs \in Seq(Unit)
  BY <1>1, WriteBlocksLaws
<1>4. ReadVlqLength(Cursor(a, v \o bs)) = Cursor(k, bs)
  <2> HIDE DEF bs
  <2> QED  BY <1>1, <1>3, LengthReadBack
<1>5. ReadBlocks[k][bs] = [blocks |-> ms, missing |-> 0, rest |-> <<>>]
  <2>1. bs \o <<>> = bs /\ <<>> \in Seq(Unit)
    BY <1>3, ConcatEmptySeq, SMTT(30)
  <2> QED  BY <1>1, <2>1, BlocksReadBack
<1> HIDE DEF v, bs
<1>6. v \o bs \in Seq(Unit) /\ Len(v \o bs) = Len(v) + Len(bs) /\ Len(bs) \in Nat
  BY <1>2, <1>3, UnitsAssociative, SMTT(30)
<1>7. body = <<a>> \o (v \o bs)
  <2> DEFINE one == <<a>>
  <2>1. one \in Seq(Unit)
    BY <1>1, SMTT(30)
  <2> HIDE DEF one
  <2>2. (one \o v) \o bs = one \o (v \o bs)
    BY <1>2, <1>3, <2>1, UnitsAssociative
  <2> QED  BY <2>2 DEF one
<1>8. body \in Seq(Unit) /\ Len(body) = 1 + Len(v) + Len(bs)
  <2> DEFINE w == v \o bs
  <2>1. <<a>> \o w \in Seq(Unit) /\ Len(<<a>> \o w) = 1 + Len(w)
    <3> HIDE DEF w
    <3> QED  BY <1>1, <1>6, ConsLaws, SMTT(30) DEF w
  <2> HIDE DEF body
  <2> QED  BY <1>2, <1>6, <1>7, <2>1, SMTT(30)
<1>9. ReadUnit(Start(body)) = Cursor(a, v \o bs)
  <2> HIDE DEF body
  <2> QED  BY <1>1, <1>6, <1>7, UnitReadBack DEF Start
<1> DEFINE type == ReadUnit(Start(body))
           count == ReadVlqLength(type)
           list == ReadBlocks[count.value][count.rest]
<1>10. type.value = a /\ count = Cursor(k, bs)
  <2> HIDE DEF body
  <2> QED  BY <1>4, <1>9, CursorLaws
<1> HIDE DEF type, count, body
<1>11. count.ok /\ count.value = k /\ count.rest = bs
  BY <1>10, CursorLaws
<1>12. list = [blocks |-> ms, missing |-> 0, rest |-> <<>>]
  BY <1>5, <1>11
<1>13. ParseModifierResponseBody(body) = Cursor(content, <<>>)
  <2>1. ParseModifierResponseBody(body) =
           IF count.ok /\ list.missing = 0
           THEN Cursor([modifier_type |-> type.value, modifiers |-> list.blocks], list.rest)
           ELSE Failed
    BY DEF ParseModifierResponseBody, type, count
  <2> HIDE DEF list
  <2>2. list.missing = 0 /\ list.blocks = ms /\ list.rest = <<>>
    BY <1>12
  <2> QED  BY <1>1, <1>10, <1>11, <2>1, <2>2
<1>14. EncodeModifierResponseBody(a, ms) = body
  BY DEF EncodeModifierResponseBody, body, v, bs
<1> QED  BY <1>8, <1>13, <1>14 DEF a, ms, v, bs

\* A list of one takes a length of one unit.
LEMMA OneIsShort == Len(WriteVlq[1]) = 1
<1>1. 1 \in Word /\ 1 < Continuation
  <2>1. WordBits - 1 \in Nat /\ GroupBits - 1 \in Nat
          /\ (WordBits - 1) + 1 = WordBits /\ (GroupBits - 1) + 1 = GroupBits
    BY VlqAssumption, SMTT(30)
  <2>2. Pow2[WordBits] = 2 * Pow2[WordBits - 1] /\ Pow2[WordBits - 1] \in Nat \ {0}
          /\ Pow2[GroupBits] = 2 * Pow2[GroupBits - 1] /\ Pow2[GroupBits - 1] \in Nat \ {0}
    BY <2>1, Pow2Laws, SMTT(30)
  <2> QED  BY <2>2, SMTT(30) DEF Word, Continuation
<1>2. WriteVlq[1] = <<1>>
  BY <1>1, WriteVlqDef
<1> QED  BY <1>2, SMTT(30)

----------------------------------------------------------------------------
(* Messages *)

\* A body that was parsed, as a message.
Typed(kind, body) ==
    IF body.ok THEN Cursor([kind |-> kind, content |-> body.value], <<>>) ELSE Failed

\* from_frame, one code at a time.
LEMMA FromFrameCases ==
    ASSUME NEW f
    PROVE  /\ f.code = 1 => FromFrame(f) = Cursor([kind |-> "GetPeers", content |-> <<>>], <<>>)
           /\ f.code = 2 => FromFrame(f) = Cursor([kind |-> "Peers", content |-> f.body], <<>>)
           /\ f.code = 22 => FromFrame(f) = Typed("ModifierRequest", ParseInvBody(f.body))
           /\ f.code = 33 =>
                 FromFrame(f) = Typed("ModifierResponse", ParseModifierResponseBody(f.body))
           /\ f.code = 55 => FromFrame(f) = Typed("Inv", ParseInvBody(f.body))
           /\ f.code = 65 => FromFrame(f) = Cursor([kind |-> "SyncInfo", content |-> f.body], <<>>)
           /\ f.code \notin {1, 2, 22, 33, 55, 65} =>
                 FromFrame(f) = Cursor([kind |-> "Unknown", code |-> f.code,
                                        content |-> f.body], <<>>)
<1>1. /\ MessageCode.GetPeers = 1 /\ MessageCode.Peers = 2 /\ MessageCode.ModifierRequest = 22
      /\ MessageCode.ModifierResponse = 33 /\ MessageCode.Inv = 55 /\ MessageCode.SyncInfo = 65
  BY DEF MessageCode
<1>2. \A v : Cursor(v, <<>>).ok /\ Cursor(v, <<>>).value = v
  BY CursorLaws
<1>3. CASE f.code = 1
  BY <1>1, <1>2, <1>3, SMTT(30) DEF FromFrame
<1>4. CASE f.code = 2
  BY <1>1, <1>2, <1>4, SMTT(30) DEF FromFrame
<1>5. CASE f.code = 22
  BY <1>1, <1>5, SMTT(30) DEF FromFrame, Typed
<1>6. CASE f.code = 33
  BY <1>1, <1>6, SMTT(30) DEF FromFrame, Typed
<1>7. CASE f.code = 55
  BY <1>1, <1>7, SMTT(30) DEF FromFrame, Typed
<1>8. CASE f.code = 65
  BY <1>1, <1>2, <1>8, SMTT(30) DEF FromFrame
<1>9. CASE f.code \notin {1, 2, 22, 33, 55, 65}
  BY <1>1, <1>9, SMTT(30) DEF FromFrame
<1> QED  BY <1>3, <1>4, <1>5, <1>6, <1>7, <1>8, <1>9

\* to_frame, one kind at a time.
LEMMA ToFrameCases ==
    ASSUME NEW m
    PROVE  /\ m.kind = "GetPeers" => ToFrame(m) = [code |-> 1, body |-> <<>>]
           /\ m.kind = "Peers" => ToFrame(m) = [code |-> 2, body |-> m.content]
           /\ m.kind = "ModifierRequest" =>
                 ToFrame(m) = [code |-> 22,
                               body |-> EncodeInvBody(m.content.modifier_type, m.content.ids)]
           /\ m.kind = "ModifierResponse" =>
                 ToFrame(m) = [code |-> 33,
                               body |-> EncodeModifierResponseBody(m.content.modifier_type,
                                                                   m.content.modifiers)]
           /\ m.kind = "Inv" =>
                 ToFrame(m) = [code |-> 55,
                               body |-> EncodeInvBody(m.content.modifier_type, m.content.ids)]
           /\ m.kind = "SyncInfo" => ToFrame(m) = [code |-> 65, body |-> m.content]
           /\ m.kind = "Unknown" => ToFrame(m) = [code |-> m.code, body |-> m.content]
<1>1. /\ MessageCode["GetPeers"] = 1 /\ MessageCode["Peers"] = 2
      /\ MessageCode["ModifierRequest"] = 22 /\ MessageCode["ModifierResponse"] = 33
      /\ MessageCode["Inv"] = 55 /\ MessageCode["SyncInfo"] = 65
  BY DEF MessageCode
<1>2. CASE m.kind = "GetPeers"
  BY <1>1, <1>2 DEF ToFrame
<1>3. CASE m.kind = "Peers"
  BY <1>1, <1>3 DEF ToFrame
<1>4. CASE m.kind = "ModifierRequest"
  BY <1>1, <1>4 DEF ToFrame
<1>5. CASE m.kind = "ModifierResponse"
  BY <1>1, <1>5 DEF ToFrame
<1>6. CASE m.kind = "Inv"
  BY <1>1, <1>6 DEF ToFrame
<1>7. CASE m.kind = "SyncInfo"
  BY <1>1, <1>7 DEF ToFrame
<1>8. CASE m.kind = "Unknown"
  BY <1>1, <1>8 DEF ToFrame
<1> QED  BY <1>2, <1>3, <1>4, <1>5, <1>6, <1>7, <1>8

\* A message whose frame is within the size limit and is read back.
Carried(m) ==
    /\ ToFrame(m) \in Frame
    /\ Len(ToFrame(m).body) <= MaxBodySize
    /\ FromFrame(ToFrame(m)) = Cursor(m, <<>>)

\* Messages that are kept as they are.
LEMMA OpaqueCarried ==
    ASSUME NEW body \in Seq(Unit), Len(body) <= MaxBodySize
    PROVE  /\ Carried([kind |-> "Peers", content |-> body])
           /\ Carried([kind |-> "SyncInfo", content |-> body])
           /\ \A code \in Unit \ {1, 2, 22, 33, 55, 65} :
                 Carried([kind |-> "Unknown", code |-> code, content |-> body])
<1>1. ASSUME NEW code \in Unit, NEW m, ToFrame(m) = [code |-> code, body |-> body],
             FromFrame([code |-> code, body |-> body]) = Cursor(m, <<>>)
      PROVE  Carried(m)
  <2> DEFINE f == [code |-> code, body |-> body]
  <2>1. f \in Frame /\ f.body = body
    BY DEF Frame
  <2> QED  BY <1>1, <2>1 DEF Carried
<1>2. Carried([kind |-> "Peers", content |-> body])
  <2> DEFINE m == [kind |-> "Peers", content |-> body]
             f == [code |-> 2, body |-> body]
  <2>1. m.kind = "Peers" /\ m.content = body /\ f.code = 2 /\ f.body = body /\ 2 \in Unit
    BY DEF Unit
  <2>2. FromFrame(f) = Cursor(m, <<>>)
    <3> HIDE DEF f
    <3> QED  BY <2>1, FromFrameCases
  <2> HIDE DEF m
  <2>3. ToFrame(m) = f
    BY <2>1, ToFrameCases
  <2>4. Carried(m)
    BY <1>1, <2>1, <2>2, <2>3
  <2> QED  BY <2>4 DEF m
<1>3. Carried([kind |-> "SyncInfo", content |-> body])
  <2> DEFINE m == [kind |-> "SyncInfo", content |-> body]
             f == [code |-> 65, body |-> body]
  <2>1. m.kind = "SyncInfo" /\ m.content = body /\ f.code = 65 /\ f.body = body /\ 65 \in Unit
    BY DEF Unit
  <2>2. FromFrame(f) = Cursor(m, <<>>)
    <3> HIDE DEF f
    <3> QED  BY <2>1, FromFrameCases
  <2> HIDE DEF m
  <2>3. ToFrame(m) = f
    BY <2>1, ToFrameCases
  <2>4. Carried(m)
    BY <1>1, <2>1, <2>2, <2>3
  <2> QED  BY <2>4 DEF m
<1>4. ASSUME NEW code \in Unit \ {1, 2, 22, 33, 55, 65}
      PROVE  Carried([kind |-> "Unknown", code |-> code, content |-> body])
  <2> DEFINE m == [kind |-> "Unknown", code |-> code, content |-> body]
             f == [code |-> code, body |-> body]
  <2>1. m.kind = "Unknown" /\ m.content = body /\ m.code = code /\ f.code = code /\ f.body = body
          /\ f.code \notin {1, 2, 22, 33, 55, 65}
    OBVIOUS
  <2>2. FromFrame(f) = Cursor(m, <<>>)
    <3> HIDE DEF f
    <3> QED  BY <2>1, FromFrameCases
  <2> HIDE DEF m
  <2>3. ToFrame(m) = f
    BY <2>1, ToFrameCases
  <2>4. Carried(m)
    BY <1>1, <2>1, <2>2, <2>3
  <2> QED  BY <2>4 DEF m
<1> QED  BY <1>2, <1>3, <1>4

\* Announcements and requests.
LEMMA IdListCarried ==
    ASSUME NEW content, NEW n \in Nat, IdList(content, n), n <= MaxBodySize
    PROVE  /\ Carried([kind |-> "Inv", content |-> content])
           /\ Carried([kind |-> "ModifierRequest", content |-> content])
<1> DEFINE body == EncodeInvBody(content.modifier_type, content.ids)
<1>1. body \in Seq(Unit) /\ Len(body) = n /\ ParseInvBody(body) = Cursor(content, <<>>)
  BY InvBodyReadBack
<1> HIDE DEF body
<1>2. ASSUME NEW code \in {22, 55}, NEW kind, NEW m, m = [kind |-> kind, content |-> content],
             ToFrame(m) = [code |-> code, body |-> body],
             FromFrame([code |-> code, body |-> body]) = Typed(kind, ParseInvBody(body))
      PROVE  Carried(m)
  <2> DEFINE f == [code |-> code, body |-> body]
  <2>1. f \in Frame /\ f.body = body
    BY <1>1, SMTT(30) DEF Frame, Unit
  <2>2. Typed(kind, ParseInvBody(body)) = Cursor(m, <<>>)
    BY <1>1, <1>2, CursorLaws, SMTT(30) DEF Typed
  <2> QED  BY <1>1, <1>2, <2>1, <2>2 DEF Carried
<1>3. Carried([kind |-> "Inv", content |-> content])
  <2> DEFINE m == [kind |-> "Inv", content |-> content]
             f == [code |-> 55, body |-> body]
  <2>1. m.kind = "Inv" /\ m.content = content /\ f.code = 55 /\ f.body = body
    OBVIOUS
  <2>2. FromFrame(f) = Typed("Inv", ParseInvBody(body))
    <3> HIDE DEF f
    <3> QED  BY <2>1, FromFrameCases
  <2>3. ToFrame(m) = f
    <3> HIDE DEF m
    <3> QED  BY <2>1, ToFrameCases DEF body
  <2>4. 55 \in {22, 55}
    OBVIOUS
  <2> QED  BY <1>2, <2>2, <2>3, <2>4
<1>4. Carried([kind |-> "ModifierRequest", content |-> content])
  <2> DEFINE m == [kind |-> "ModifierRequest", content |-> content]
             f == [code |-> 22, body |-> body]
  <2>1. m.kind = "ModifierRequest" /\ m.content = content /\ f.code = 22 /\ f.body = body
    OBVIOUS
  <2>2. FromFrame(f) = Typed("ModifierRequest", ParseInvBody(body))
    <3> HIDE DEF f
    <3> QED  BY <2>1, FromFrameCases
  <2>3. ToFrame(m) = f
    <3> HIDE DEF m
    <3> QED  BY <2>1, ToFrameCases DEF body
  <2>4. 22 \in {22, 55}
    OBVIOUS
  <2> QED  BY <1>2, <2>2, <2>3, <2>4
<1> QED  BY <1>3, <1>4

\* Responses with one modifier.
LEMMA ModifierCarried ==
    ASSUME NEW content, NEW n \in Nat, ModifierList(content, n), n <= MaxBodySize,
           NEW i \in 1..Len(content.modifiers)
    PROVE  Carried([kind |-> "ModifierResponse",
                    content |-> [modifier_type |-> content.modifier_type,
                                 modifiers |-> <<content.modifiers[i]>>]])
<1> DEFINE a == content.modifier_type
           b == content.modifiers[i]
           one == <<b>>
           single == [modifier_type |-> a, modifiers |-> one]
           body == EncodeModifierResponseBody(a, one)
           m == [kind |-> "ModifierResponse", content |-> single]
           f == [code |-> 33, body |-> body]
<1>1. a \in Unit /\ b \in Writable /\ 2 + Len(WriteBlock(b)) <= n
        /\ Len(content.modifiers) \in Lengths /\ Len(content.modifiers) \in Nat
  BY SMTT(30) DEF ModifierList
<1>2. 1 \in Lengths
  BY <1>1, LengthsAreWords, SMTT(30) DEF Lengths
<1> HIDE DEF a, b
<1>3. one \in Seq(Writable) /\ Len(one) = 1 /\ one # <<>> /\ Head(one) = b /\ Tail(one) = <<>>
        /\ one[1] = b
  BY <1>1, SMTT(30)
<1>4. WriteBlock(b) \in Seq(Unit)
  BY <1>1, BlockReadBack, EmptySeq
<1>5. WriteBlocks(one) = WriteBlock(b)
  <2>1. WriteBlocks(one) = WriteBlock(b) \o <<>>
    <3> HIDE DEF one
    <3> QED  BY <1>3, WriteBlocksLaws
  <2> QED  BY <1>4, <2>1, ConcatEmptySeq
<1> HIDE DEF one
<1>6. single.modifier_type = a /\ single.modifiers = one
  OBVIOUS
<1>7. ModifierList(single, 2 + Len(WriteBlock(b)))
  <2> DEFINE w == Len(WriteBlock(b))
  <2>1. w \in Nat
    BY <1>4, SMTT(30)
  <2> HIDE DEF w
  <2>2. 2 + w <= 2 + w
    BY <2>1, SMTT(30)
  <2>3. \A j \in 1..Len(one) : one[j] = b
    BY <1>3, SMTT(30)
  <2> QED  BY <1>1, <1>2, <1>3, <1>6, <2>2, <2>3 DEF ModifierList, w
<1>8. body \in Seq(Unit) /\ Len(body) = 1 + 1 + Len(WriteBlock(b))
        /\ ParseModifierResponseBody(body) = Cursor(single, <<>>)
  <2> HIDE DEF single
  <2>1. /\ body \in Seq(Unit)
        /\ Len(body) = 1 + Len(WriteVlq[Len(one)]) + Len(WriteBlocks(one))
        /\ ParseModifierResponseBody(body) = Cursor(single, <<>>)
    BY <1>6, <1>7, ResponseBodyReadBack
  <2> QED  BY <1>3, <1>5, <2>1, OneIsShort
<1> HIDE DEF body
<1>9. Len(body) <= MaxBodySize
  <2> DEFINE w == Len(WriteBlock(b))
  <2>1. w \in Nat /\ 2 + w <= n /\ Len(body) = 1 + 1 + w
    BY <1>1, <1>4, <1>8, SMTT(30)
  <2> HIDE DEF w
  <2> QED  BY <2>1, FrameAssumption, SMTT(30)
<1>10. m.kind = "ModifierResponse" /\ m.content = single /\ f.code = 33 /\ f.body = body
         /\ f \in Frame
  BY <1>8 DEF Frame, Unit
<1>11. FromFrame(f) = Typed("ModifierResponse", ParseModifierResponseBody(body))
  <2> HIDE DEF f
  <2> QED  BY <1>10, FromFrameCases
<1>12. Typed("ModifierResponse", ParseModifierResponseBody(body)) = Cursor(m, <<>>)
  BY <1>8, CursorLaws, SMTT(30) DEF Typed
<1>13. ToFrame(m) = f
  <2> HIDE DEF m
  <2> QED  BY <1>6, <1>10, ToFrameCases, SMTT(30) DEF body
<1>14. Carried(m)
  BY <1>9, <1>10, <1>11, <1>12, <1>13 DEF Carried
<1> QED  BY <1>14 DEF a, b, one

\* Requests with one id.
LEMMA RequestCarried ==
    ASSUME NEW content, NEW n \in Nat, IdList(content, n), n <= MaxBodySize,
           NEW i \in 1..Len(content.ids)
    PROVE  Carried([kind |-> "ModifierRequest",
                    content |-> [modifier_type |-> content.modifier_type,
                                 ids |-> <<content.ids[i]>>]])
<1> DEFINE a == content.modifier_type
           one == <<content.ids[i]>>
           single == [modifier_type |-> a, ids |-> one]
           k == Len(content.ids)
<1>1. a \in Unit /\ content.ids \in Seq(Unit) /\ k \in Lengths
        /\ 1 + Len(WriteVlq[k]) + k = n
  BY DEF IdList
<1>2. k \in Nat /\ k \in Word /\ i \in 1..k
  BY <1>1, LengthsAreWords
<1>3. 1 \in Lengths
  BY <1>1, <1>2, LengthsAreWords, SMTT(30) DEF Lengths
<1>4. one \in Seq(Unit) /\ Len(one) = 1
  BY <1>1, SMTT(30)
<1> HIDE DEF a, one, k
<1>5. Len(WriteVlq[k]) \in Nat \ {0}
  <2>1. <<>> \in Seq(Unit)
    BY EmptySeq
  <2>2. Len(WriteVlq[k]) \in 1..MaxGroups
    BY <1>2, <2>1, VlqReadBack
  <2> QED  BY <2>2, GroupsHoldWord, SMTT(30)
<1>6. 3 <= n
  <2> DEFINE w == Len(WriteVlq[k])
  <2>1. w \in Nat /\ w # 0 /\ 1 + w + k = n
    BY <1>1, <1>5
  <2> HIDE DEF w
  <2> QED  BY <1>2, <2>1, SMTT(30)
<1>7. 3 <= MaxBodySize
  BY <1>6, FrameAssumption, SMTT(30)
<1>8. single.modifier_type = a /\ single.ids = one
        /\ single = [modifier_type |-> single.modifier_type, ids |-> single.ids]
  OBVIOUS
<1> HIDE DEF single
<1>9. IdList(single, 3)
  <2>1. 1 + Len(WriteVlq[Len(single.ids)]) + Len(single.ids) = 3
    <3>1. Len(single.ids) = 1
      BY <1>4, <1>8
    <3> QED  BY <3>1, OneIsShort, SMTT(30)
  <2> QED  BY <1>1, <1>3, <1>4, <1>8, <2>1 DEF IdList
<1>10. Carried([kind |-> "ModifierRequest", content |-> single])
  BY <1>7, <1>9, IdListCarried
<1> QED  BY <1>10 DEF single, a, one

\* Whatever a peer wrote, what the router makes of it is within the size limit and is
\* read back by the next peer as it was meant: a length that was written with more
\* groups than it needs becomes shorter, and so does a list that is split.
LEMMA ForwardedCarried ==
    ASSUME NEW f \in Frame, Len(f.body) <= MaxBodySize, FromFrame(f).ok,
           NEW m \in Forwarded(FromFrame(f).value)
    PROVE  Carried(m)
<1> DEFINE c == FromFrame(f)
           received == c.value
           body == f.body
<1>1. f.code \in Unit /\ body \in Seq(Unit) /\ Len(body) \in Nat
  BY SMTT(30) DEF Frame
<1>2. ASSUME NEW kind, NEW parsed, c = Typed(kind, parsed)
      PROVE  parsed.ok /\ received = [kind |-> kind, content |-> parsed.value]
  BY <1>2, CursorLaws, SMTT(30) DEF Typed
<1>3. ASSUME NEW v, c = Cursor(v, <<>>) PROVE received = v
  BY <1>3, CursorLaws
<1> HIDE DEF c, received
<1>4. m \in Forwarded(received)
  BY DEF c, received
<1>5. CASE f.code = 1
  <2>1. received = [kind |-> "GetPeers", content |-> <<>>]
    BY <1>3, <1>5, FromFrameCases DEF c
  <2>2. m = [kind |-> "Peers", content |-> <<>>]
    BY <1>4, <2>1 DEF Forwarded
  <2>3. <<>> \in Seq(Unit) /\ Len(<<>>) <= MaxBodySize
    BY FrameAssumption, EmptySeq, SMTT(30)
  <2> QED  BY <2>2, <2>3, OpaqueCarried
<1>6. CASE f.code = 2
  <2>1. received = [kind |-> "Peers", content |-> body]
    BY <1>3, <1>6, FromFrameCases DEF c
  <2> QED  BY <1>4, <2>1 DEF Forwarded
<1>7. CASE f.code = 22
  <2> DEFINE parsed == ParseInvBody(body)  content == parsed.value
  <2>1. parsed.ok /\ received = [kind |-> "ModifierRequest", content |-> content]
    BY <1>2, <1>7, FromFrameCases DEF c
  <2>2. PICK n \in 0..Len(body) : IdList(content, n)
    BY <1>1, <2>1, InvBodyParsed
  <2>3. n \in Nat /\ n <= MaxBodySize
    BY <1>1, FrameAssumption, SMTT(30)
  <2> HIDE DEF content
  <2>4. content.ids \in Seq(Unit)
          /\ content = [modifier_type |-> content.modifier_type, ids |-> content.ids]
    BY <2>2 DEF IdList
  <2>5. PICK i \in 1..Len(content.ids) :
           m = [received EXCEPT !.content.ids = <<content.ids[i]>>]
    BY <1>4, <2>1, <2>4, SMTT(30) DEF Forwarded
  <2>6. m = [kind |-> "ModifierRequest",
             content |-> [modifier_type |-> content.modifier_type, ids |-> <<content.ids[i]>>]]
    BY <2>1, <2>4, <2>5
  <2> QED  BY <2>2, <2>3, <2>6, RequestCarried
<1>8. CASE f.code = 33
  <2> DEFINE parsed == ParseModifierResponseBody(body)  content == parsed.value
  <2>1. parsed.ok /\ received = [kind |-> "ModifierResponse", content |-> content]
    BY <1>2, <1>8, FromFrameCases DEF c
  <2>2. ModifierList(content, Len(body))
    BY <1>1, <2>1, ResponseBodyParsed
  <2> HIDE DEF content
  <2>3. content.modifiers \in Seq(Writable)
          /\ content = [modifier_type |-> content.modifier_type,
                        modifiers |-> content.modifiers]
    BY <2>2 DEF ModifierList
  <2>4. PICK i \in 1..Len(content.modifiers) :
           m = [received EXCEPT !.content.modifiers = <<content.modifiers[i]>>]
    BY <1>4, <2>1, <2>3, SMTT(30) DEF Forwarded
  <2>5. m = [kind |-> "ModifierResponse",
             content |-> [modifier_type |-> content.modifier_type,
                          modifiers |-> <<content.modifiers[i]>>]]
    BY <2>1, <2>3, <2>4
  <2> QED  BY <1>1, <2>2, <2>5, ModifierCarried
<1>9. CASE f.code = 55
  <2> DEFINE parsed == ParseInvBody(body)  content == parsed.value
  <2>1. parsed.ok /\ received = [kind |-> "Inv", content |-> content]
    BY <1>2, <1>9, FromFrameCases DEF c
  <2>2. PICK n \in 0..Len(body) : IdList(content, n)
    BY <1>1, <2>1, InvBodyParsed
  <2>3. n \in Nat /\ n <= MaxBodySize
    BY <1>1, FrameAssumption, SMTT(30)
  <2> HIDE DEF content
  <2>4. m = [kind |-> "Inv", content |-> content]
    BY <1>4, <2>1 DEF Forwarded
  <2> QED  BY <2>2, <2>3, <2>4, IdListCarried
<1>10. CASE f.code = 65
  <2>1. received = [kind |-> "SyncInfo", content |-> body]
    <3>1. c = Cursor([kind |-> "SyncInfo", content |-> body], <<>>)
      BY <1>10, FromFrameCases DEF c
    <3> QED  BY <1>3, <3>1
  <2>2. m = [kind |-> "SyncInfo", content |-> body]
    BY <1>4, <2>1 DEF Forwarded
  <2> QED  BY <1>1, <2>2, OpaqueCarried
<1>11. CASE f.code \notin {1, 2, 22, 33, 55, 65}
  <2>1. received = [kind |-> "Unknown", code |-> f.code, content |-> body]
    BY <1>3, <1>11, FromFrameCases DEF c
  <2>2. m = [kind |-> "Unknown", code |-> f.code, content |-> body]
    BY <1>4, <2>1 DEF Forwarded
  <2>3. f.code \in Unit \ {1, 2, 22, 33, 55, 65}
    BY <1>1, <1>11
  <2> QED  BY <1>1, <2>2, <2>3, OpaqueCarried
<1> QED  BY <1>5, <1>6, <1>7, <1>8, <1>9, <1>10, <1>11

----------------------------------------------------------------------------
(* A frame on its way *)

\* The inductive invariant.
MessagesInv ==
    /\ wire \in Seq(Unit)
    /\ number \in SignedWord
    /\ WrittenIsReadable

\* A hop writes a message of the router, and the next reader reads it.
LEMMA HopCarries ==
    ASSUME wire \in Seq(Unit), Hop
    PROVE  \E m \in Forwarded(Message.value) :
              /\ wire' \in Seq(Unit)
              /\ ReadFrame(Magic, wire)' =
                    [outcome |-> "frame", frame |-> ToFrame(m), rest |-> <<>>]
              /\ Message' = Cursor(m, <<>>)
<1> DEFINE read == ReadFrame(Magic, wire)
<1>1. Message.ok
  BY DEF Hop
<1>2. read.outcome = "frame" /\ Message = FromFrame(read.frame)
  BY <1>1, CursorLaws DEF Message
<1>3. PICK m \in Forwarded(Message.value) : wire' = Encode(Magic, ToFrame(m))
  BY DEF Hop
<1>4. read.frame \in Frame /\ Len(read.frame.body) <= MaxBodySize
  BY <1>2, ReadFrameType
<1>5. Carried(m)
  <2> HIDE DEF read
  <2> QED  BY <1>1, <1>2, <1>3, <1>4, ForwardedCarried
<1> DEFINE e == Encode(Magic, ToFrame(m))
<1>6. e \in Seq(Unit)
  BY <1>5, EncodeLaws, MessagesAssumption DEF Carried
<1>7. ReadFrame(Magic, e) = [outcome |-> "frame", frame |-> ToFrame(m), rest |-> <<>>]
  <2>1. ReadFrame(Magic, e \o <<>>) = [outcome |-> "frame", frame |-> ToFrame(m), rest |-> <<>>]
    BY <1>5, FrameReadBack, MessagesAssumption, EmptySeq DEF Carried
  <2>2. e \o <<>> = e
    <3> HIDE DEF e
    <3> QED  BY <1>6, ConcatEmptySeq
  <2> QED  BY <2>1, <2>2
<1>8. ReadFrame(Magic, wire)' = ReadFrame(Magic, e)
  BY <1>3
<1>9. Message' = FromFrame(ToFrame(m))
  BY <1>7, <1>8, SMTT(30) DEF Message
<1> QED  BY <1>3, <1>5, <1>6, <1>7, <1>8, <1>9 DEF Carried

\* The frame of a peer, or of the keepalive, is a sequence of units.
LEMMA MessagesInitial == Init => MessagesInv
<1> SUFFICES ASSUME Init PROVE MessagesInv
  OBVIOUS
<1>1. WrittenIsReadable
  BY DEF Init, WrittenIsReadable
<1>2. 0 \in SignedWord
  <2>1. WordBits - 1 \in Nat
    BY VlqAssumption, SMTT(30)
  <2>2. Pow2[WordBits - 1] \in Nat /\ Pow2[WordBits - 1] >= 1
    BY <2>1, Pow2Laws
  <2> QED  BY <2>2, SMTT(30) DEF SignedWord
<1>3. CASE /\ wire \in {Encode(Magic, frame) : frame \in FromRemote}
           /\ number = 0
  <2>1. PICK frame \in FromRemote : wire = Encode(Magic, frame)
    BY <1>3
  <2>2. frame \in Frame
    BY MessagesAssumption DEF Frame
  <2>3. wire \in Seq(Unit)
    BY <2>1, <2>2, EncodeLaws, MessagesAssumption
  <2> QED  BY <1>1, <1>2, <1>3, <2>3 DEF MessagesInv
<1>4. CASE /\ wire = Encode(Magic, ToFrame([kind |-> "GetPeers", content |-> <<>>]))
           /\ number \in SignedWord
  <2> DEFINE keepalive == [kind |-> "GetPeers", content |-> <<>>]
  <2>1. keepalive.kind = "GetPeers"
    OBVIOUS
  <2> HIDE DEF keepalive
  <2>2. ToFrame(keepalive) = [code |-> 1, body |-> <<>>]
    BY <2>1, ToFrameCases
  <2>3. ToFrame(keepalive) \in Frame
    BY <2>2, EmptySeq, SMTT(30) DEF Frame, Unit
  <2>4. wire \in Seq(Unit)
    BY <1>4, <2>3, EncodeLaws, MessagesAssumption DEF keepalive
  <2> QED  BY <1>1, <1>4, <2>4 DEF MessagesInv
<1> QED  BY <1>3, <1>4 DEF Init

\* Every hop keeps the invariant.
LEMMA MessagesStep == MessagesInv /\ [Hop]_messageVars => MessagesInv'
<1> SUFFICES ASSUME MessagesInv, [Hop]_messageVars PROVE MessagesInv'
  OBVIOUS
<1>1. CASE Hop
  <2>1. PICK m \in Forwarded(Message.value) :
           /\ wire' \in Seq(Unit)
           /\ ReadFrame(Magic, wire)' =
                 [outcome |-> "frame", frame |-> ToFrame(m), rest |-> <<>>]
           /\ Message' = Cursor(m, <<>>)
    BY <1>1, HopCarries DEF MessagesInv
  <2>2. Decode(Magic, wire)' = Cursor(ToFrame(m), <<>>)
    BY <2>1, SMTT(30) DEF Decode
  <2>3. WrittenIsReadable'
    BY <2>1, <2>2, CursorLaws, SMTT(30) DEF WrittenIsReadable
  <2> QED  BY <1>1, <2>1, <2>3 DEF MessagesInv, Hop
<1>2. CASE UNCHANGED messageVars
  BY <1>2 DEF MessagesInv, messageVars, WrittenIsReadable, Message, Decode
<1> QED  BY <1>1, <1>2

\* The inductive invariant holds in every reachable state.
THEOREM MessagesInvariant == Spec => []MessagesInv
<1> QED  BY MessagesInitial, MessagesStep, PTL DEF Spec

\* decode(magic, encode(magic, frame)) is the frame (frame.rs:9), and every frame that
\* the proxy writes is complete, within the limit that is checked only when reading,
\* and parses, whatever the remote peer had written.
THEOREM WrittenFramesReadable == Spec => []WrittenIsReadable
<1>1. MessagesInv => WrittenIsReadable
  BY DEF MessagesInv
<1> QED  BY <1>1, MessagesInvariant, PTL

\* read_vlq inverts write_vlq over all words, and zigzag_decode inverts zigzag_encode
\* (vlq.rs:5): a signed word is read back, for every width.
THEOREM NumbersReadBack == Spec => []NumberReadBack
<1>1. MessagesInv => NumberReadBack
  <2> SUFFICES ASSUME MessagesInv PROVE NumberReadBack
    OBVIOUS
  <2> DEFINE z == ZigzagEncode(number)  w == WriteVlq[z]
  <2>1. z \in Word /\ ZigzagDecode(z) = number
    BY ZigzagReadBack DEF MessagesInv
  <2> HIDE DEF z
  <2>2. w \in Seq(Unit) /\ ReadVlq(Cursor(<<>>, w \o <<>>)) = Cursor(z, <<>>)
    BY <2>1, VlqReadBack, EmptySeq
  <2>3. w \o <<>> = w
    <3> HIDE DEF w
    <3> QED  BY <2>2, ConcatEmptySeq
  <2>4. ReadVlq(Start(w)) = Cursor(z, <<>>)
    BY <2>2, <2>3 DEF Start
  <2> QED  BY <2>1, <2>4, CursorLaws, SMTT(30) DEF NumberReadBack, z
<1> QED  BY <1>1, MessagesInvariant, PTL

\* from_frame(&msg.to_frame()) is msg (messages.rs:9): over a hop the next reader gets
\* one of the messages that the router meant to send.
THEOREM MeaningIsKept == Spec => MeaningKept
<1>1. MessagesInv /\ [Hop]_messageVars
        => [\E m \in Forwarded(Message.value) : Message' = Cursor(m, <<>>)]_messageVars
  BY HopCarries DEF MessagesInv
<1> QED  BY <1>1, MessagesInvariant, PTL DEF Spec, MeaningKept

=============================================================================
