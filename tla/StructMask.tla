----------------------------- MODULE StructMask -----------------------------
(***************************************************************************)
(* Bit fields (utils/structmask): a posting or an attribute cell is an     *)
(* array of words, cut into the named fields of the configuration.         *)
(*                                                                         *)
(* A word is the set of its 1 bits, so the macros of structmask.h keep     *)
(* their shape: & is \cap, | is \cup, ~ is \ and a shift moves every bit.  *)
(***************************************************************************)
EXTENDS Integers, Sequences, SequencesExt, FiniteSetsExt, Functions

CONSTANTS
  WordBits,   \* bits of a uint32_t (32 in the code)
  OffBits     \* bits of uint_offset and uint32_count (10 in the code)

ASSUME WordAssumption == WordBits \in Nat \ {0} /\ OffBits \in Nat \ {0}

Num(w) == MapThenSumSet(LAMBDA b : 2^b, w)
Bits(n) == {b \in 0..WordBits - 1 : (n \div 2^b) % 2 = 1}
Shl(w, n) == {b + n : b \in w} \cap 0..WordBits - 1
Shr(w, n) == {b - n : b \in {c \in w : c >= n}}

-----------------------------------------------------------------------------
(***************************************************************************)
(* The constructor.  A configuration is a sequence of [key, seg].          *)
(***************************************************************************)
\* SEG_LIST CONFIG ERROR.
Refused(st, f) ==
  \/ f.seg = 0 \/ f.seg > WordBits \/ st.bit + f.seg > WordBits
  \/ f.key \in DOMAIN st.items

\* One field; uint_offset is a bit field and is cut to its width.
WithField(st, f) ==
  IF ~st.ok \/ Refused(st, f) THEN [st EXCEPT !.ok = FALSE]
  ELSE LET full == st.bit + f.seg = WordBits IN
       [ok |-> TRUE,
        bit |-> IF full THEN 0 ELSE st.bit + f.seg,
        section |-> IF full THEN st.section + 1 ELSE st.section,
        items |-> (f.key :> [mask |-> st.bit..(st.bit + f.seg - 1),
                             move |-> st.bit,
                             off  |-> st.section % 2^OffBits]) @@ st.items]

\* The structmask of a configuration; ~ok where the constructor throws.
Layout(fields) ==
  LET st == FoldLeft(WithField, [ok |-> TRUE, bit |-> 0, section |-> 0, items |-> <<>>], fields)
  IN  [st EXCEPT !.ok = /\ @ /\ st.bit = 0 /\ DOMAIN st.items # {}
                        /\ st.section <= 2 * 2^OffBits]

-----------------------------------------------------------------------------
(***************************************************************************)
(* The macros.  A cell is a function from 0..count-1 to words.             *)
(***************************************************************************)
Zero(layout) == [i \in 0..layout.section - 1 |-> {}]

MaxValue(m) == Num(Shr(m.mask, m.move))
Get(cell, m) == Num(Shr(cell[m.off] \cap m.mask, m.move))

\* The value is not masked: one that is too large reaches into the next field.
Set(cell, m, v) == [cell EXCEPT ![m.off] = (@ \ m.mask) \cup Shl(Bits(v), m.move)]

\* Mutant: no saturation.
IncWraps(cell, m, v) == [cell EXCEPT ![m.off] = Bits(Num(@) + v * 2^m.move)]

\* _INC_UTILL_MAX_SOLO_
Inc(cell, m, v) ==
  IF v + Get(cell, m) <= MaxValue(m)
    THEN [cell EXCEPT ![m.off] = Bits(Num(@) + v * 2^m.move)]
    ELSE Set(cell, m, MaxValue(m))

=============================================================================
