--------------------------- MODULE MCValueMarshal ---------------------------
(***************************************************************************)
(* ValueMarshal with two levels of nesting, values of up to three, each    *)
(* kind of leaf, a fixnum of the guest that the host has no room for, and  *)
(* text that is ASCII, that is UTF-8, and bytes that are neither.          *)
(***************************************************************************)
EXTENDS ValueMarshal

Leaf(type) == [t |-> type]
Fix(n) == [t |-> "fixnum", v |-> n]
Common == {Nil, Leaf("true"), Fix(1), Loop, Leaf("object")}
Labelled(leaf, enc) == [leaf EXCEPT !.enc = enc]
MCHostLeaves ==
  Common \cup {HostString("word"), HostSymbol("word"), HostSymbol("accent")}
         \cup {Labelled(HostString("bytes"), "binary"),
               Labelled(HostSymbol("accent"), "binary"),
               Labelled(HostSymbol("bytes"), "binary")}
Symbol(text) == [t |-> "symbol", v |-> text]
MCGuestLeaves ==
  Common \cup {Fix(9), [t |-> "string", v |-> "bytes"]}
         \cup {Symbol(text) : text \in Texts}

Array(elements) == [t |-> "array", v |-> elements]
Hash(pairs) == [t |-> "hash", v |-> pairs]

\* One level around the values of S, each alone or behind one that copies;
\* symbol is a key of the side.
Wrapped(S, symbol) ==
  UNION {{Array(<<x>>), Array(<<Fix(1), x>>), Hash(<< <<x, Fix(1)>> >>),
          Hash(<< <<symbol, Nil>>, <<Fix(1), x>> >>)} : x \in S}

\* Leaves at each level, and some of what nests two and three deep.
Empty == {Array(<<>>), Hash(<<>>)}
Few == {Fix(1), Loop}
Nested(leaves, symbol) ==
  leaves \cup Wrapped(leaves, symbol) \cup Empty
  \cup Wrapped(Wrapped(Few, symbol) \cup Empty, symbol)
  \cup {Array(<<x>>) : x \in Wrapped(Wrapped({Fix(1)}, symbol), symbol)}

MCHostValues == Nested(MCHostLeaves, HostSymbol("word"))
MCGuestValues == Nested(MCGuestLeaves, Symbol("word"))
==============================================================================
