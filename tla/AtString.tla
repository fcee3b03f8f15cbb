------------------------------ MODULE AtString -------------------------------
(***************************************************************************)
(* An at_string_t in the hands of a caller, from string_new or             *)
(* string_blank to string_free.                                            *)
(***************************************************************************)
EXTENDS StringBuffer

CONSTANTS Piece,      \* what a caller may begin with or append: sequences of
                      \* bytes, none of them zero
          Blanks,     \* the capacities string_blank is called with
          MaxSize     \* bound of the model: the longest text

ASSUME AtStringAssumption ==
    /\ Piece \subseteq Seq(Nat \ {0})
    /\ Blanks \subseteq Nat \ {0}
    /\ MaxSize \in Nat
    /\ Junk \notin Nat

VARIABLES
    str,      \* the string
    live      \* it has not been freed

vars == <<str, live>>

Init ==
    /\ live = TRUE
    /\ \/ \E p \in Piece : str = string_new(p)
       \/ \E c \in Blanks : str = string_blank(c)

AppendText(p) ==
    /\ str.size + Len(p) <= MaxSize
    /\ str' = string_append(str, p)
    /\ UNCHANGED live

AppendCh(ch) ==
    /\ str.size + 1 <= MaxSize
    /\ str' = string_appendch(str, ch)
    /\ UNCHANGED live

Reset == str' = string_reset(str) /\ UNCHANGED live

\* string_free; the caller's pointer is NULL from then on.
Free ==
    /\ live' = FALSE
    /\ UNCHANGED str

Over == ~live /\ UNCHANGED vars

Next ==
    \/ /\ live
       /\ \/ \E p \in Piece : AppendText(p)
          \/ \E p \in Piece : Len(p) = 1 /\ AppendCh(p[1])
          \/ Reset
          \/ Free
    \/ Over

Spec == Init /\ [][Next]_vars

-----------------------------------------------------------------------------
(* Properties.                                                              *)

\* The string is the text its caller has put together: growth, by either way
\* of appending, and reuse after a reset lose and mix up no byte of it.
Abstract == INSTANCE Text WITH text <- IF live THEN Bytes(str) ELSE <<>>,
                               open <- live
ImplementsText == Abstract!Spec

\* Nothing is written behind the buffer, there is always room for a zero after
\* the text, and what a growth leaves uncleared is in the upper half of the
\* buffer: string_cstr returns a C string as long as the text fills less than
\* half of it (and always if it has never grown).
HalfFullIsCString ==
    /\ DOMAIN str.buffer = 0..str.capcity - 1
    /\ str.size < str.capcity
    /\ \A i \in DOMAIN str.buffer :
          i >= str.size /\ 2 * i < str.capcity => str.buffer[i] = 0
=============================================================================
