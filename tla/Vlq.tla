-------------------------------- MODULE Vlq ---------------------------------
(***************************************************************************)
(* The integer and string encodings of the wire (transport/vlq.rs), over a *)
(* reduced width: a byte has one continuation bit and GroupBits data bits  *)
(* (7 in the code), a word has WordBits bits (64).  As in the code, the    *)
(* last group of a word is only partly inside it: WordBits is no multiple  *)
(* of GroupBits.                                                           *)
(*                                                                         *)
(* A field that the code reads with a single read_exact of fixed size (a   *)
(* magic, a version, an id) is one unit of the stream, a natural number;   *)
(* read_exact takes all of it or fails.                                    *)
(*                                                                         *)
(* A read takes a cursor and returns one: whether all reads so far have    *)
(* succeeded, what the last of them returned, and the input that is left.  *)
(* A failed cursor fails every later read, as `?` does.                    *)
(***************************************************************************)
EXTENDS Integers, Sequences

CONSTANTS
    GroupBits,       \* data bits of a byte: 7
    WordBits,        \* bits of a u64: 64
    MaxVlqLength     \* MAX_VLQ_LENGTH: 256 * 1024

\* Powers of two.
Pow2[n \in Nat] == IF n = 0 THEN 1 ELSE 2 * Pow2[n - 1]

ASSUME VlqAssumption ==
    /\ GroupBits \in Nat \ {0}
    /\ WordBits \in Nat \ {0}
    /\ MaxVlqLength \in 0..Pow2[WordBits] - 1

Continuation == Pow2[GroupBits]

Word == 0..Pow2[WordBits] - 1

Unit == Nat

----------------------------------------------------------------------------
(* Cursors *)

Failed == [ok |-> FALSE]

Cursor(value, rest) == [ok |-> TRUE, value |-> value, rest |-> rest]

\* Cursor::new(data)
Start(data) == Cursor(<<>>, data)

\* read_exact of n units.
ReadExact(c, n) ==
    IF c.ok /\ n <= Len(c.rest)
    THEN Cursor(SubSeq(c.rest, 1, n), SubSeq(c.rest, n + 1, Len(c.rest)))
    ELSE Failed

\* The next read: a reader is a function of the input that is left.
Then(c, reader) == IF c.ok THEN reader[c.rest] ELSE Failed

\* read_exact of one field of fixed size.
UnitAt == [s \in Seq(Unit) |-> IF s = <<>> THEN Failed ELSE Cursor(Head(s), Tail(s))]

ReadUnit(c) == Then(c, UnitAt)

----------------------------------------------------------------------------
(* VLQ *)

\* write_vlq
WriteVlq[value \in Word] ==
    IF value < Continuation
    THEN <<value>>
    ELSE <<Continuation + (value % Continuation)>> \o WriteVlq[value \div Continuation]

\* Mutant: the loop allows one group less.
MaxGroupsShort == (WordBits - 1) \div GroupBits

\* The shift of a group is at most WordBits - 1.
MaxGroups == (WordBits - 1) \div GroupBits + 1

\* The groups of a VLQ, lowest first.
VlqValue[bytes \in Seq(Unit)] ==
    IF bytes = <<>> THEN 0
    ELSE (Head(bytes) % Continuation) + Continuation * VlqValue[Tail(bytes)]

\* The length of the VLQ that s begins with, if it does: up to the first byte without a
\* continuation bit.
VlqLengths(s) ==
    {n \in 1..Len(s) : /\ n <= MaxGroups
                       /\ s[n] < Continuation
                       /\ \A i \in 1..n - 1 : s[i] >= Continuation}

\* The groups are ORed into the word; what is shifted out of the word is lost without
\* an error.
VlqAt[s \in Seq(Unit)] ==
    IF VlqLengths(s) = {} THEN Failed
    ELSE LET n == CHOOSE n \in VlqLengths(s) : TRUE
         IN  Cursor(VlqValue[SubSeq(s, 1, n)] % Pow2[WordBits], SubSeq(s, n + 1, Len(s)))

\* read_vlq
ReadVlq(c) == Then(c, VlqAt)

\* read_vlq_length
ReadVlqLength(c) ==
    LET length == ReadVlq(c)
    IN  IF length.ok /\ length.value <= MaxVlqLength THEN length ELSE Failed

----------------------------------------------------------------------------
(* Zigzag, of i32 and of i64: a signed word is shifted left, and all bits  *)
(* are flipped when it is negative.                                        *)

SignedWord == -Pow2[WordBits - 1]..Pow2[WordBits - 1] - 1

ZigzagEncode(value) ==
    LET shifted == (2 * value) % Pow2[WordBits]
    IN  IF value < 0 THEN Pow2[WordBits] - 1 - shifted ELSE shifted

ZigzagDecode(value) ==
    IF value % 2 = 0 THEN value \div 2 ELSE -(value \div 2) - 1

----------------------------------------------------------------------------
(* Short strings; a string is a sequence of units, taken to be UTF-8 *)

\* write_short_string of a release build: the length is cut to one byte.
WriteShortString(string) == <<Len(string) % (2 * Continuation)>> \o string

\* read_short_string
ShortStringAt ==
    [s \in Seq(Unit) |->
        LET length == ReadUnit(Start(s))
        IN  IF length.ok THEN ReadExact(length, length.value) ELSE Failed]

ReadShortString(c) == Then(c, ShortStringAt)

----------------------------------------------------------------------------
(* Blocks: an id and the bytes that belong to it, the layout of a feature of a         *)
(* handshake and of a modifier of a response                                           *)

Block == [id : Unit, body : Seq(Unit)]

\* What a run of writes to the same stream leaves there.
Flatten(writes) ==
    LET after[n \in 0..Len(writes)] == IF n = 0 THEN <<>> ELSE after[n - 1] \o writes[n]
    IN  after[Len(writes)]

WriteBlock(block) == <<block.id>> \o WriteVlq[Len(block.body)] \o block.body

WriteBlocks(blocks) == Flatten([i \in DOMAIN blocks |-> WriteBlock(blocks[i])])

\* One pass of the loops that read them.
ReadBlock(c) ==
    LET id     == ReadUnit(c)
        length == ReadVlqLength(id)
        body   == IF length.ok THEN ReadExact(length, length.value) ELSE Failed
    IN  IF body.ok THEN Cursor([id |-> id.value, body |-> body.value], body.rest) ELSE Failed

\* Such a loop, for n blocks: it ends after the last, or before the first that cannot
\* be read.
ReadBlocks[n \in Nat] ==
    [rest \in Seq(Unit) |->
        LET block == ReadBlock(Start(rest))
        IN  IF n = 0 \/ ~block.ok
            THEN [blocks |-> <<>>, missing |-> n, rest |-> rest]
            ELSE LET others == ReadBlocks[n - 1][block.rest]
                 IN  [blocks |-> <<block.value>> \o others.blocks,
                      missing |-> others.missing, rest |-> others.rest]]

=============================================================================
