------------------------------ MODULE MCDecimal ------------------------------
(***************************************************************************)
(* The parts of the decimal library side by side: a behaviour is one of    *)
(* calls of the library, one of a script with its Decimals, or one call of *)
(* a function on coefficients.                                             *)
(***************************************************************************)
EXTENDS MpdCorrect, GuestDecimal, MpdWordCalls, TLC

VARIABLE part \* which of the three this behaviour is about
allVars == <<vars, guestVars, wordVars, part>>

MCMinEmin == -9
MCCtx(mode, clamp) ==
  [prec |-> 2, emax |-> 2, emin |-> -2, round |-> mode, clamp |-> clamp,
   traps |-> {}, status |-> {}, newtrap |-> {}]
MCContexts ==
  {MCCtx(mode, clamp) : mode \in Roundings, clamp \in {0, 1}}
  \cup {[MCCtx("ROUND_HALF_UP", 0) EXCEPT !.traps = Traps]}

Signs == {0, 1}
NaNs == {QNaN, [QNaN EXCEPT !.k = "snan"], [QNaN EXCEPT !.c = 105]}
Specials == {Inf(0), Inf(1)} \cup NaNs
Firsts ==
  Specials \cup
  {Fin(s, c, e) : s \in Signs, e \in {-4, -1, 1},
                  c \in {0, 1, 5, 15, 49, 50, 51, 95, 99, 105, 995}}
Seconds ==
  Specials \cup
  {Fin(s, c, e) : s \in Signs, e \in {-2, 0, 1}, c \in {0, 1, 7, 99}}
Few ==
  Specials \cup {Fin(s, c, e) : s \in Signs, e \in {-2, 0}, c \in {0, 1, 33}}
Ints == {Fin(s, c, 0) : s \in Signs, c \in {0, 1, 2, 3}}
Texts ==
  {Word(k, s, p) : k \in {"bad", "nan", "snan", "inf"}, s \in {"", "-"},
                   p \in {<<>>, <<0, 1>>, <<1, 2, 3>>}}
  \cup {Text(s, i, f # <<>>, f, e) :
         s \in {"", "-", "+"}, i \in {<<>>, <<0>>, <<0, 9, 9>>, <<5>>},
         f \in {<<>>, <<0>>, <<0, 5>>, <<9, 9, 1>>},
         e \in {<<>>, <<-40>>, <<-3>>, <<2>>, <<40>>}}
\* Without a width all that is put around a number, and with one where.
Formats ==
  {[NoFormat EXCEPT !.sign = s, !.comma = c, !.prec = p, !.type = ty] :
     s \in {"", "+"}, c \in BOOLEAN, p \in {<<>>, <<0>>, <<2>>},
     ty \in {"f", "e", "", "%", "n"}}
  \cup
  {[align |-> IF z = "z" THEN "" ELSE z, zero |-> z = "z", sign |-> "+",
    width |-> w, comma |-> c, prec |-> p, type |-> ty] :
     z \in {"", "=", "^", "<", "z"}, w \in {7, 8}, c \in BOOLEAN,
     p \in {<<>>, <<0>>}, ty \in {"f", "e", "%"}}
UnaryOps ==
  {"finalize", "invert", "logb", "abs", "minus", "plus", "next_minus",
   "next_plus", "reduce", "round_to_intx", "round_to_int", "trunc", "floor",
   "ceil"}
BinaryOps ==
  {"add", "sub", "mul", "div", "rem", "rem_near", "divint",
   "compare", "max", "min", "divmod"}
FewOps ==
  {"and", "copy_sign", "or", "rotate", "scaleb", "shift", "xor",
   "compare_signal", "max_mag", "min_mag",
   "next_toward", "rescale", "check_nans", "maxcoeff"}
\* C integers, and those at the ends of a word.
CInts == Ints \ {Fin(1, 0, 0)}
WordsOut ==
  CInts \cup {Fin(0, 8191, 0), Fin(1, 8191, 0), Fin(1, 8192, 0),
            Fin(0, 16383, 0), Fin(0, 95, 0)}
\* Squares of numbers half way between two of the precision.
Squares == {Fin(0, 11025, 0), Fin(0, 13225, 0), Fin(0, 11026, -4)}
MCOffers ==
  [o \in UnaryOps |-> {<<x>> : x \in Firsts}]
  @@ [o \in BinaryOps |-> Firsts \X Seconds]
  @@ [o \in {"quantize"} |->
       Firsts \X (Seconds \cup {Fin(0, 1, 2), Fin(1, 0, 2), Fin(0, 7, 3)})]
  @@ [o \in FewOps |-> Few \X Few]
  @@ [o \in SsizeOps |-> Few \X CInts]
  @@ [o \in {"sqrt"} |-> {<<x>> : x \in Firsts \cup Squares}]
  @@ [o \in {"set_ssize"} |->
       {<<x>> : x \in {y \in WordsOut : IsSsize(y)}}]
  @@ [o \in {"set_uint"} |-> {<<x>> : x \in {y \in WordsOut : IsUint(y)}}]
  @@ [o \in {"get_ssize", "get_uint", "abs_uint"} |->
       {<<x>> : x \in Firsts \cup WordsOut
                       \cup {Fin(1, 8193, 0), Fin(0, 16384, 0)}}]
  @@ [o \in {"cmp"} |-> Few \X Seconds]
  @@ [o \in {"shiftn"} |-> Few \X Ints]
  @@ [o \in {"fma"} |-> Few \X Few \X Few]
  @@ [o \in {"powmod"} |->
       {Fin(1, 7, 0), Fin(0, 3, 1)}
       \X (Ints \cup {Fin(0, 5, 0)})
       \X {Fin(0, 7, 0), Fin(1, 1, 1), Fin(0, 1, 0)}]
  @@ [o \in {"pow"} |->
       ({Fin(0, 1, 1), Fin(0, 10, -1), Fin(1, 1, 0), Fin(0, 2, 0),
         Fin(1, 2, 0), Fin(0, 5, -1), Fin(0, 0, 0), Inf(1), QNaN}
        \X (Ints \cup Specials \cup {Fin(0, 7, 0)}))
       \cup ({Fin(1, 3, 0), Fin(1, 12, 0)}
             \X {Fin(0, 1, 0), Fin(0, 2, 0), Fin(0, 3, 0)})]
  @@ [o \in {"to_sci", "to_eng"} |->
       {<<x>> : x \in Specials \cup
          {Fin(s, c, e) : s \in Signs, c \in {0, 1, 15, 995}, e \in -9..6}}]
  @@ [o \in {"set_string"} |-> {<<t>> : t \in Texts}]
  @@ [o \in {"format"} |->
       ({Inf(1), [QNaN EXCEPT !.c = 10]} \cup
        {Fin(s, c, e) : s \in Signs, c \in {0, 7, 95, 1234},
                        e \in {-3, -1, 0, 3}})
       \X Formats]

MCArguments ==
  {[int |-> n] : n \in {0, -15, 100}}
  \cup {[text |-> t] :
     t \in {NoText, Word("inf", "-", <<>>), Word("nan", "", <<0, 7>>),
            Word("snan", "-", <<>>), Text("-", <<0>>, TRUE, <<0>>, <<>>),
            Text("", <<1>>, TRUE, <<5, 0>>, <<>>),
            Text("", <<1, 5>>, FALSE, <<>>, <<-1>>),
            Text("+", <<1>>, FALSE, <<>>, <<5>>),
            Text("", <<9>>, TRUE, <<9, 6>>, <<>>),
            Text("", <<>>, TRUE, <<3>>, <<-8>>),
            Text("", <<>>, TRUE, <<3>>, <<-9>>),
            Text("", <<0>>, FALSE, <<>>, <<4>>)}}
  \cup {[raises |-> TRUE]}

------------------------------------------------------------------------------
(* Arrays of words: of few lengths with all words at the ends, and long     *)
(* ones of three kinds.                                                     *)
MCModuli == <<16033, 15937, 15649>>
MCRoots == <<5, 7, 11>>
Ends == {0, 1, 5000, 9999}
Few3 == {<<a, b, c>> : a, b \in Ends, c \in Ends \ {0}}
Few2 == {<<a, b>> : a \in Ends, b \in Ends \ {0}}
Few1 == {<<a>> : a \in Ends \ {0}}
Nines(n) == Array(n, LAMBDA i : 9999)
Mixed(n) == Array(n, LAMBDA i : 1 + ((i * i * 1237 + 4999 * (i + n)) % 9999))
Sparse(n) ==
  Array(n, LAMBDA i : IF i % 3 = n % 3 \/ i = n - 1 THEN 9998 ELSE 0)
Long(la, lb) ==
  {<<Nines(la), Nines(lb)>>, <<Mixed(la), Sparse(lb)>>,
   <<Sparse(la), Mixed(lb)>>}
LongAll(lengths) == UNION {Long(l[1], l[2]) : l \in lengths}
Single == {1, 2, 3, 16, 99, 1000, 1638, 4999, 5000, 6384, 8192, 9998, 9999}
Factors == {0, 1, 2, 127, 128, 8191, 8192, 9999, 15360, 15871, 15872}
Bases == {16, 256, 9999}

MCWordOffers ==
  [o \in {"baseadd"} |-> Few3 \X (Few3 \cup Few2 \cup Few1)]
  @@ [o \in {"basesub"} |->
       {p \in Few3 \X (Few3 \cup Few2 \cup Few1) : OrderOf(p[1], p[2]) >= 0}]
  @@ [o \in {"baseincr"} |-> (Few3 \cup Few1) \X {<<>>}]
  @@ [o \in {"basedivmod"} |->
       (Few3 \X Few2) \cup (Few3 \X Few3)
       \cup ({<<a>> \o u : a \in Ends, u \in Few3} \X Few3)]
  @@ [o \in {"shortdiv"} |->
       Few3 \X ({<<a>> : a \in Single} \cup Few1)]
  @@ [o \in {"baseshiftl", "baseshiftr"} |->
       {<<u, <<n>>>> : u \in Few3 \cup {<<5050, 2005, 123>>}, n \in 0..9}]
  @@ [o \in {"mul"} |->
       ({<<a>> : a \in Single} \X {<<a>> : a \in Single})
       \cup (Few2 \X (Few2 \cup Few1)) \cup (Few3 \X (Few3 \cup Few1))
       \cup LongAll({<<5, 2>>, <<4, 6>>, <<6, 6>>, <<12, 12>>, <<20, 14>>,
                     <<30, 20>>})]
  @@ [o \in {"kmul"} |->
       LongAll({<<la, lb>> : la \in {4, 5, 6, 7, 9, 12, 13, 18, 21},
                             lb \in 1..21} \cap {p \in (4..21) \X (1..21) :
                                                   p[2] <= p[1]})]
  @@ [o \in {"fntmul"} |->
       LongAll({<<2, 2>>, <<3, 3>>, <<8, 7>>, <<10, 6>>, <<20, 12>>,
                <<21, 13>>, <<18, 18>>})]
  @@ [o \in {"kmul_fnt"} |-> LongAll({<<25, 4>>, <<25, 20>>})]
  @@ [o \in {"mulmod"} |->
       {<<<<a>>, <<b, k>>>> : a, b \in Factors, k \in {4, 8, 9}}]
  @@ [o \in {"export"} |->
       {<<u, <<b>>>> : u \in Few3 \cup Few1 \cup {<<0>>}, b \in Bases}]
  @@ [o \in {"import_u16", "import_u32"} |->
       {<<u, <<b>>>> : u \in {<<0>>, <<1, 1, 1, 1, 1>>, <<1, 0, 0>>},
                      b \in Bases}
       \cup {<<u, <<9999>>>> : u \in {<<9998, 9998, 9998>>, <<2, 1, 9998>>}}]

MCInit ==
  \/ part = "calls" /\ Init /\ GuestInit /\ WordInit
  \/ /\ part = "guest" /\ GuestInit /\ WordInit
     /\ call = NoCall /\ ret = Result(QNaN, {}) /\ ctx = MCCtx("ROUND_UP", 0)
  \/ /\ part = "words" /\ GuestInit /\ WordInit
     /\ call = NoCall /\ ret = Result(QNaN, {}) /\ ctx = MCCtx("ROUND_UP", 0)
MCNext ==
  \/ part = "calls" /\ Next /\ UNCHANGED <<guestVars, wordVars, part>>
  \/ part = "guest" /\ GuestNext /\ UNCHANGED <<vars, wordVars, part>>
  \/ part = "words" /\ WordNext /\ UNCHANGED <<vars, guestVars, part>>
MCSpec == MCInit /\ [][MCNext]_allVars
==============================================================================
