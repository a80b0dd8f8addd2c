-------------------------------- MODULE Json --------------------------------
(***************************************************************************)
(* jsoncpp 0.5.0 as flexse uses it: the sender writes a message with       *)
(* FastWriter, the update thread, the query threads and every              *)
(* configuration read it back with Reader and take it apart with Value's   *)
(* accessors.                                                              *)
(*                                                                         *)
(* A text is a sequence of tokens.  The reader is the recursive descent of *)
(* json_reader.cpp with its stack of open containers made explicit; it     *)
(* reads one token per step, and after an error skips tokens until the     *)
(* container it is in ends.                                                *)
(***************************************************************************)
EXTENDS Integers, Sequences, SequencesExt, FiniteSetsExt, Functions

CONSTANTS
  IntBits,    \* bits of Int and UInt (32 in the code)
  NameOrder,  \* member names in the order of strcmp, the empty one first
  Goals,      \* values that are written and read back
  Tokens,     \* tokens a text that nobody wrote may hold
  MaxText,    \* length of such a text (bound)
  MaxComments,   \* comments put into a written text (bound)
  Items, MaxSize, MaxOps   \* values, array size and calls a value is built with (bounds)

ASSUME JsonAssumption ==
  /\ IntBits \in Nat \ {0}
  /\ {MaxText, MaxComments, MaxSize, MaxOps} \subseteq Nat
  /\ NameOrder[1] = ""

VARIABLES
  goal,    \* the value that is built, written and read back, or NoGoal
  ops,     \* calls that may still change it
  input,   \* what is left of its text
  left,    \* free or comment tokens that may still come
  pc, first,   \* where the reader is; first: directly behind a '['
  stack,   \* nodes_: the containers being read
  cur, rok,    \* the value and the result of the readValue that returns
  errors,  \* number of errors_
  loose,   \* history: what was read although JSON does not allow it
  text,    \* history: what was read before the first error, without comments
  root, ok     \* the result of parse

vars == <<goal, ops, input, left, pc, first, stack, cur, rok, errors, loose, text, root, ok>>

-----------------------------------------------------------------------------
(***************************************************************************)
(* Values.  Arrays are maps from indices, as objects are from names.       *)
(***************************************************************************)
maxInt == 2^(IntBits - 1) - 1
minInt == -(2^(IntBits - 1))
maxUInt == 2^IntBits - 1

Null == [type |-> "null"]
IntValue(n) == [type |-> "int", num |-> n]
UIntValue(n) == [type |-> "uint", num |-> n]
RealValue(n) == [type |-> "real", num |-> n]
BoolValue(b) == [type |-> "bool", bool |-> b]
StringValue(s) == [type |-> "string", str |-> s]
ArrayValue(m) == [type |-> "array", map |-> m]
ObjectValue(m) == [type |-> "object", map |-> m]
EmptyMap == <<>>

Numeric(v) == v.type \in {"int", "uint", "real"}
BoolNum(b) == IF b THEN 1 ELSE 0

\* size(): the highest index + 1 of an array.
Size(v) ==
  CASE v.type = "array"  -> IF DOMAIN v.map = {} THEN 0 ELSE Max(DOMAIN v.map) + 1
    [] v.type = "object" -> Cardinality(DOMAIN v.map)
    [] v.type \notin {"array", "object"} -> 0

\* The non-const operator[]: what is not there is inserted as null.
Resolve(m, key) == IF key \in DOMAIN m THEN m ELSE (key :> Null) @@ m

\* The const operator[]: what is not there reads as null.
At(v, key) == IF key \in DOMAIN v.map THEN v.map[key] ELSE Null

Without(m, keys) == [k \in DOMAIN m \ keys |-> m[k]]

\* Where asInt and asUInt do not throw, and what they return; reals here have no
\* fraction to cut.
AsIntOk(v) ==
  \/ v.type \in {"null", "int", "bool"}
  \/ v.type = "uint" /\ v.num < maxInt
  \/ v.type = "real" /\ v.num \in minInt..maxInt
AsUIntOk(v) ==
  \/ v.type \in {"null", "uint", "bool"}
  \/ v.type = "int" /\ v.num >= 0
  \/ v.type = "real" /\ v.num \in 0..maxUInt
AsNumber(v) == IF Numeric(v) THEN v.num ELSE IF v.type = "bool" THEN BoolNum(v.bool) ELSE 0

-----------------------------------------------------------------------------
(***************************************************************************)
(* Tokens and the writer.                                                  *)
(***************************************************************************)
P(c) == [type |-> c]
Str(s) == [type |-> "string", str |-> s]
\* A number: its value, and whether it is written with a point.
NumTok(n, point) == [type |-> "number", num |-> n, point |-> point]
Comment == P("comment")
Eof == P("eof")

Members(m) == SelectSeq(NameOrder, LAMBDA n : n \in DOMAIN m)
Joined(parts) ==
  FlattenSeq([i \in DOMAIN parts |-> IF i = 1 THEN parts[i] ELSE <<P(",")>> \o parts[i]])

\* Mutant: an unsigned value is written as the signed one with its bits.
AsSigned(v) == IF v.type = "uint" /\ v.num > maxInt THEN v.num - 2^IntBits ELSE v.num

\* valueToString
Written(v) == v.num

\* FastWriter::writeValue
RECURSIVE Write(_)
Write(v) ==
  CASE v.type = "null"   -> <<P("null")>>
    [] v.type \in {"int", "uint"} -> <<NumTok(Written(v), FALSE)>>
    [] v.type = "real"   -> <<NumTok(v.num, TRUE)>>
    [] v.type = "string" -> <<Str(v.str)>>
    [] v.type = "bool"   -> <<P(IF v.bool THEN "true" ELSE "false")>>
    [] v.type = "array"  ->
         <<P("[")>> \o Joined([i \in 1..Size(v) |-> Write(At(v, i - 1))]) \o <<P("]")>>
    [] v.type = "object" ->
         LET ns == Members(v.map) IN
         <<P("{")>> \o Joined([i \in DOMAIN ns |-> <<Str(ns[i]), P(":")>> \o Write(v.map[ns[i]])])
         \o <<P("}")>>

-----------------------------------------------------------------------------
(***************************************************************************)
(* decodeNumber: digit by digit; what might not fit is read as a double.   *)
(***************************************************************************)
Digits[n \in Nat] == IF n < 10 THEN <<n>> ELSE Append(Digits[n \div 10], n % 10)
Threshold(neg) == (IF neg THEN -minInt ELSE maxUInt) \div 10

\* The digits fit as long as the number before the last one is below the threshold.
Fits(ds, neg) ==
  LET Prefix[i \in 0..Len(ds)] == IF i = 0 THEN 0 ELSE Prefix[i - 1] * 10 + ds[i]
  IN  \A i \in 1..Len(ds) : Prefix[i - 1] < Threshold(neg)

DecodeNumber(tok) ==
  LET neg == tok.num < 0
      n == IF neg THEN -tok.num ELSE tok.num
  IN  IF tok.point \/ ~Fits(Digits[n], neg) THEN RealValue(tok.num)
      ELSE IF neg THEN IntValue(-n)
      ELSE IF n <= maxInt THEN IntValue(n) ELSE UIntValue(n)

\* readValue on a token that is a value by itself.
Scalars == {"number", "string", "true", "false", "null"}
ScalarOf(tok) ==
  CASE tok.type = "number" -> DecodeNumber(tok)
    [] tok.type = "string" -> StringValue(tok.str)
    [] tok.type \in {"true", "false"} -> BoolValue(tok.type = "true")
    [] tok.type = "null" -> Null

-----------------------------------------------------------------------------
(***************************************************************************)
(* Building a value with the calls that change one.  A null value becomes  *)
(* the container the call asks for.                                        *)
(***************************************************************************)
NoGoal == [type |-> "none"]
reader == <<pc, first, stack, cur, rok, errors, loose, text, root, ok>>

MapOf(v) == IF v.type = "null" THEN EmptyMap ELSE v.map

Building(types) == pc = "build" /\ ops > 0 /\ goal.type \in types
Built(v) == goal' = v /\ ops' = ops - 1 /\ UNCHANGED <<input, left, reader>>

\* value[index] = item
SetIndex(i, item) ==
  /\ Building({"null", "array"})
  /\ Built(ArrayValue([Resolve(MapOf(goal), i) EXCEPT ![i] = item]))

\* value.append(item)
AppendItem(item) == Size(goal) < MaxSize /\ SetIndex(Size(goal), item)

\* value[name] = item
SetMember(name, item) ==
  /\ Building({"null", "object"})
  /\ Built(ObjectValue([Resolve(MapOf(goal), name) EXCEPT ![name] = item]))

RemoveMember(name) ==
  Building({"object"}) /\ Built(ObjectValue(Without(goal.map, {name})))

Clear == Building({"array", "object"}) /\ Built([goal EXCEPT !.map = EmptyMap])

\* value.resize(n): a longer array gets its last element only; a shorter one loses
\* what is behind n, and the assertion fails when n - 1 is a hole.
Resized(v, n) ==
  LET m == MapOf(v)
      size == Size(v)
  IN  ArrayValue(IF n = 0 THEN EmptyMap
                 ELSE IF n > size THEN Resolve(m, n - 1) ELSE Without(m, n..(size - 1)))
Resize(n) ==
  /\ Building({"null", "array"})
  /\ Size(Resized(goal, n)) = n
  /\ Built(Resized(goal, n))
ResizeDies(n) ==
  /\ Building({"array"})
  /\ Size(Resized(goal, n)) # n
  /\ pc' = "aborted"
  /\ UNCHANGED <<goal, ops, input, left, first, stack, cur, rok, errors, loose, text, root, ok>>

\* The value is written, and its text handed to the reader.
WriteOut ==
  /\ pc = "build"
  /\ input' = Write(goal)
  /\ pc' = "value"
  /\ UNCHANGED <<goal, ops, left, first, stack, cur, rok, errors, loose, text, root, ok>>

-----------------------------------------------------------------------------
(***************************************************************************)
(* The reader.  pc names the readToken that comes next:                    *)
(*   value   readValue              sep     behind an element of an array  *)
(*   name    a member's name        colon   behind the name                *)
(*   comma   behind a member        more    ... and a comment              *)
(*   skip    recoverFromError       end     behind the root                *)
(* and "return" is the return of a readValue to the container around it.   *)
(***************************************************************************)
Init ==
  /\ goal \in Goals \cup {Null, NoGoal}
  /\ ops = (IF goal = Null THEN MaxOps ELSE 0)
  /\ left = (IF goal = NoGoal THEN MaxText ELSE MaxComments)
  /\ pc = (IF goal = NoGoal THEN "value" ELSE "build")
  /\ input = <<>> /\ first = FALSE /\ stack = <<>> /\ cur = Null /\ rok = TRUE
  /\ errors = 0 /\ loose = FALSE /\ text = <<>> /\ root = Null /\ ok = FALSE

Top == Head(stack)
Free == goal = NoGoal

\* A comment is put into a written text wherever the reader has a loop that skips it:
\* not before a ':' and not into an empty array.
CommentFits == left > 0 /\ pc # "colon" /\ ~(first /\ Head(input) = P("]"))

NextTokens ==
  IF Free THEN {Eof} \cup (IF left > 0 THEN Tokens ELSE {})
  ELSE {IF input = <<>> THEN Eof ELSE Head(input)} \cup (IF CommentFits THEN {Comment} ELSE {})

ReadToken(tok) ==
  /\ tok \in NextTokens
  /\ input' = IF input # <<>> /\ tok # Comment THEN Tail(input) ELSE input
  /\ left' = IF Free /\ tok = Eof THEN 0 ELSE IF Free \/ tok = Comment THEN left - 1 ELSE left
  /\ text' = IF errors' > 0 THEN <<>>
             ELSE IF Free /\ pc # "end" /\ tok # Comment THEN Append(text, tok) ELSE text
  /\ UNCHANGED <<goal, ops>>

\* What a step does: where it goes, and the parts of the state it sets.
Goes(next, st, f) == pc' = next /\ stack' = st /\ first' = f
Quiet == UNCHANGED <<errors, loose>>
Loosely(b) == loose' = (loose \/ b) /\ UNCHANGED errors
AddError == errors' = errors + 1 /\ UNCHANGED loose
KeepsResult == UNCHANGED <<cur, rok, root, ok>>
Gives(v, good) == cur' = v /\ rok' = good /\ UNCHANGED <<root, ok>>

ContainerOf(frame) == [type |-> frame.type, map |-> frame.map]
Frame(type) == [type |-> type, map |-> EmptyMap, name |-> "", index |-> 0]

\* currentValue(): what the readValue that runs is to fill.
CurrentValue ==
  IF stack = <<>> THEN Null
  ELSE At(ContainerOf(Top), IF Top.type = "array" THEN Top.index ELSE Top.name)

\* The container on top of the stack is complete, or given up.
Ends(good) == Gives(ContainerOf(Top), good) /\ Goes("return", Tail(stack), FALSE)
ErrorAndRecover == AddError /\ KeepsResult /\ Goes("skip", stack, FALSE)

\* readArray pushes the element it is about to read.
OpenElement(frame) == [frame EXCEPT !.map = Resolve(@, frame.index)]

ReadValue(tok) ==
  /\ pc = "value"
  /\ \/ tok = Comment /\ Quiet /\ KeepsResult /\ Goes(pc, stack, FALSE)
     \/ tok.type \in Scalars /\ Quiet /\ Gives(ScalarOf(tok), TRUE) /\ Goes("return", stack, FALSE)
     \/ /\ tok = P("{") /\ Quiet /\ KeepsResult
        /\ Goes("name", <<Frame("object")>> \o stack, FALSE)
     \/ /\ tok = P("[") /\ Quiet /\ KeepsResult
        /\ Goes("value", <<Frame("array")>> \o stack, TRUE)
     \/ first /\ tok = P("]") /\ Quiet /\ Ends(TRUE)
     \/ /\ tok.type \notin Scalars \cup {"comment", "{", "["} /\ ~(first /\ tok = P("]"))
        /\ AddError /\ Gives(CurrentValue, FALSE) /\ Goes("return", stack, FALSE)
  /\ ReadToken(tok)

\* readObject.  The name left over from the member before decides about a '}'.
Ascending(frame, name) ==
  \A n \in DOMAIN frame.map :
    \E i, j \in DOMAIN NameOrder : i < j /\ NameOrder[i] = n /\ NameOrder[j] = name

ReadName(tok) ==
  /\ pc = "name"
  /\ \/ tok = Comment /\ Quiet /\ KeepsResult /\ Goes(pc, stack, FALSE)
     \/ /\ tok = P("}") /\ Top.name = ""
        /\ Loosely(DOMAIN Top.map # {}) /\ Ends(TRUE)
     \/ /\ tok.type = "string"
        /\ Loosely(~Ascending(Top, tok.str)) /\ KeepsResult
        /\ Goes("colon", [stack EXCEPT ![1].name = tok.str], FALSE)
     \/ /\ tok.type \notin {"comment", "string"} /\ ~(tok = P("}") /\ Top.name = "")
        /\ ErrorAndRecover
  /\ ReadToken(tok)

\* Mutant: whatever is behind a name passes for the ':'.
ReadColonAny(tok) ==
  /\ pc = "colon"
  /\ Quiet /\ KeepsResult
  /\ Goes("value", [stack EXCEPT ![1].map = Resolve(@, Top.name)], FALSE)
  /\ ReadToken(tok)

ReadColon(tok) ==
  /\ pc = "colon"
  /\ \/ /\ tok = P(":") /\ Quiet /\ KeepsResult
        /\ Goes("value", [stack EXCEPT ![1].map = Resolve(@, Top.name)], FALSE)
     \/ tok # P(":") /\ ErrorAndRecover
  /\ ReadToken(tok)

ReadComma(tok) ==
  /\ pc = "comma"
  /\ \/ tok = Comment /\ Quiet /\ KeepsResult /\ Goes("more", stack, FALSE)
     \/ tok = P("}") /\ Quiet /\ Ends(TRUE)
     \/ tok = P(",") /\ Quiet /\ KeepsResult /\ Goes("name", stack, FALSE)
     \/ tok \notin {Comment, P("}"), P(",")} /\ ErrorAndRecover
  /\ ReadToken(tok)

\* Behind a comment whatever is not a '}' passes for the ','.
ReadMore(tok) ==
  /\ pc = "more"
  /\ \/ tok = Comment /\ Quiet /\ KeepsResult /\ Goes(pc, stack, FALSE)
     \/ tok = P("}") /\ Quiet /\ Ends(TRUE)
     \/ /\ tok \notin {Comment, P("}")}
        /\ Loosely(tok # P(",")) /\ KeepsResult /\ Goes("name", stack, FALSE)
  /\ ReadToken(tok)

\* readArray behind an element: badTokenType is never true, so that whatever is not a
\* ']' passes for the ','.
ReadSep(tok) ==
  /\ pc = "sep"
  /\ \/ tok = Comment /\ Quiet /\ KeepsResult /\ Goes(pc, stack, FALSE)
     \/ tok = P("]") /\ Quiet /\ Ends(TRUE)
     \/ /\ tok \notin {Comment, P("]")}
        /\ Loosely(tok # P(",")) /\ KeepsResult
        /\ Goes("value", [stack EXCEPT ![1] = OpenElement([Top EXCEPT !.index = @ + 1])], FALSE)
  /\ ReadToken(tok)

\* recoverFromError
Closing(frame) == P(IF frame.type = "object" THEN "}" ELSE "]")

\* Mutant: only the end of the container ends the search for it.
RecoveredAtClosing(tok) == tok = Closing(Top)

Recovered(tok) == tok \in {Closing(Top), Eof}

Recover(tok) ==
  /\ pc = "skip"
  /\ Quiet
  /\ \/ Recovered(tok) /\ Ends(FALSE)
     \/ ~Recovered(tok) /\ KeepsResult /\ Goes(pc, stack, FALSE)
  /\ ReadToken(tok)

\* readValue returns: the element or member it read is in its container, which goes on
\* or, when the value was not read, looks for its own end.
Attached(frame) ==
  IF frame.type = "array" THEN [frame EXCEPT !.map = (frame.index :> cur) @@ @]
  ELSE [frame EXCEPT !.map = (frame.name :> cur) @@ @]
Return ==
  /\ pc = "return" /\ stack # <<>>
  /\ Goes(IF ~rok THEN "skip" ELSE IF Top.type = "array" THEN "sep" ELSE "comma",
          [stack EXCEPT ![1] = Attached(Top)], FALSE)
  /\ UNCHANGED <<goal, ops, input, left, text>> /\ Quiet /\ KeepsResult

ReturnRoot ==
  /\ pc = "return" /\ stack = <<>>
  /\ root' = cur /\ ok' = rok
  /\ Goes("end", stack, FALSE)
  /\ UNCHANGED <<goal, ops, input, left, text, cur, rok>> /\ Quiet

\* parse skips the comments behind the root, and looks at nothing else there.
ReadEnd(tok) ==
  /\ pc = "end"
  /\ Quiet /\ KeepsResult
  /\ Goes(IF tok = Comment THEN pc ELSE "done", stack, FALSE)
  /\ ReadToken(tok)

Read(tok) ==
  \/ ReadValue(tok) \/ ReadName(tok) \/ ReadColon(tok) \/ ReadComma(tok)
  \/ ReadMore(tok) \/ ReadSep(tok) \/ Recover(tok) \/ ReadEnd(tok)

Parse == (\E tok \in NextTokens : Read(tok)) \/ Return \/ ReturnRoot

Build ==
  \/ \E item \in Items :
       \/ \E i \in 0..(MaxSize - 1) : SetIndex(i, item)
       \/ AppendItem(item)
       \/ \E n \in Range(NameOrder) : SetMember(n, item)
  \/ \E n \in Range(NameOrder) : RemoveMember(n)
  \/ \E n \in 0..MaxSize : Resize(n) \/ ResizeDies(n)
  \/ Clear

Next ==
  \/ Build
  \/ WriteOut
  \/ Parse

\* A parse is one call: its thread runs until it returns.
FairSpec == Init /\ [][Next]_vars /\ WF_vars(Parse)

-----------------------------------------------------------------------------
(***************************************************************************)
(* Properties                                                              *)
(***************************************************************************)
\* What was read stands for what was written: a number is given back by the accessor
\* of the type it was written from, a hole in an array is a null.
RECURSIVE Same(_, _)
Same(v, w) ==
  CASE v.type = "int"    -> AsIntOk(w) /\ AsNumber(w) = v.num
    [] v.type = "uint"   -> AsUIntOk(w) /\ AsNumber(w) = v.num
    [] v.type \in {"real", "string", "bool", "null"} -> w = v
    [] v.type = "array"  ->
         w.type = "array" /\ Size(w) = Size(v) /\ \A i \in 0..(Size(v) - 1) : Same(At(v, i), At(w, i))
    [] v.type = "object" ->
         w.type = "object" /\ DOMAIN w.map = DOMAIN v.map /\ \A n \in DOMAIN v.map : Same(v.map[n], w.map[n])

\* However a value was built, and with comments wherever the reader skips them, the
\* message the sender writes (send_message.cpp:114) is the one the update thread and
\* the queue server read.
RoundTrip == pc = "done" /\ ~Free => ok /\ Same(goal, root)

\* A text is accepted exactly when no error was recorded, also one inside a container
\* that was skipped; and apart from the separators the reader lets through, an accepted
\* text is the one the writer gives for the value that was read.
AcceptedIsWritten ==
  pc = "done" => /\ ok <=> errors = 0
                 /\ Free /\ ok /\ ~loose => text = Write(root)

\* Every text, whatever is missing in it, is read to its end.
ParseEnds == (pc = "value") ~> (pc = "done")
=============================================================================
