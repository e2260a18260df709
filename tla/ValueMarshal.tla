---------------------------- MODULE ValueMarshal ----------------------------
(***************************************************************************)
(* inject and extract: Ruby values copied into an instance variable of the *)
(* guest (value_host.c) and back (value_guest.c), both by recursion with a *)
(* bounded depth.  What is hard is that a copy may stop half way, that     *)
(* values may contain themselves, and that the guest's constructors report *)
(* failure through the interpreter's exception, which an earlier call may  *)
(* have left there.                                                        *)
(*                                                                         *)
(* A value has a type t and contents v: elements of an array, pairs of a   *)
(* hash in its order.  A "loop" is an array whose one element is itself.   *)
(* The bytes of a string or symbol are one token; on the host they have an *)
(* encoding besides, which the guest does not know: what comes from it is  *)
(* called UTF-8.  The guest keeps one variable: names are interned and do  *)
(* not meet.                                                               *)
(***************************************************************************)
EXTENDS Integers, Sequences

CONSTANTS
  DepthMax,    \* ME_HOST_DATA_DEPTH_MAX
  HostFixnums, \* FIXABLE; the guest's integers may be wider
  Texts,       \* the bytes of strings and symbols
  Utf8Texts,   \* those that are valid UTF-8
  AsciiTexts,  \* those that are only ASCII
  Encodings,   \* of the host's strings and symbols
  MaxNesting,  \* bound: how far values nest
  HostValues,  \* bound: what is injected
  GuestValues  \* bound: what scripts assign

------------------------------------------------------------------------------
(* Values.                                                                  *)

Nil == [t |-> "nil"]
Loop == [t |-> "loop"]
Immediate == {"nil", "false", "true"}
Containers == {"array", "hash", "loop"}

Plain == [t : Immediate \cup {"object"}]
\* Ruby has a symbol of the encoding US-ASCII for ASCII text that is US-ASCII
\* or UTF-8, and none whose bytes its encoding does not allow.
HostSymbols ==
  {s \in [t : {"symbol"}, v : Texts, enc : Encodings] :
     /\ s.enc = "US-ASCII" => s.v \in AsciiTexts
     /\ s.enc = "UTF-8" => s.v \in Utf8Texts \ AsciiTexts}
HostLeaves ==
  Plain \cup HostSymbols \cup [t : {"fixnum"}, v : HostFixnums]
        \cup [t : {"string"}, v : Texts, enc : Encodings]
GuestLeaves ==
  Plain \cup [t : {"fixnum"}, v : Int] \cup [t : {"string", "symbol"}, v : Texts]

KeysDiffer(pairs) ==
  \A i, j \in DOMAIN pairs : pairs[i][1] = pairs[j][1] => i = j
\* The arrays and hashes of values of S.
Made(S) ==
  [t : {"array"}, v : Seq(S)]
  \cup {h \in [t : {"hash"}, v : Seq(S \X S)] : KeysDiffer(h.v)}
\* What nests at most n deep around the values of base: an empty array or
\* hash does not nest.
NestedIn(base, n) ==
  LET upTo[i \in 0..n] == base \cup Made(IF i = 0 THEN {} ELSE upTo[i - 1])
  IN upTo[n]

HostVals == NestedIn(HostLeaves \cup {Loop}, MaxNesting)
GuestVals == NestedIn(GuestLeaves \cup {Loop}, MaxNesting)

ASSUME MarshalAssumption ==
  /\ DepthMax \in Nat /\ MaxNesting \in Nat
  /\ HostFixnums \subseteq Int /\ {"UTF-8", "US-ASCII"} \subseteq Encodings
  /\ AsciiTexts \subseteq Utf8Texts /\ Utf8Texts \subseteq Texts
ASSUME ValuesAssumption ==
  HostValues \subseteq HostVals /\ GuestValues \subseteq GuestVals

VARIABLES
  ivar,    \* the guest's variable
  exc,     \* state->exc of the interpreter
  rude,    \* scripts have redefined Array#hash and Hash#hash to raise
  outcome, \* the last call and how it ended
  given    \* history: the value injected last, until a script assigns

marshalVars == <<ivar, exc, rude, outcome, given>>

Excs == {"none", "error", "exit"}
\* The types of me_value_err, and the exception Ruby raises through a copy.
Errors == {"NoErr", "Unsupported", "OutOfRange", "TooDeep", "GuestErr"}
          \cup {"EncodingError"}

\* What a copy returns: a value, *err, and the exception that is left.
Copied(v, x) == [v |-> v, err |-> "NoErr", exc |-> x]
Failed(err, x) == [v |-> Nil, err |-> err, exc |-> x]

\* A loop over elements or pairs stops at the first whose copy failed.
UnlessFailed(copies, made) ==
  LET failed == {i \in DOMAIN copies : copies[i].err # "NoErr"}
  IN IF failed = {} THEN Copied(made, "none")
     ELSE copies[CHOOSE i \in failed : \A j \in failed : i <= j]

\* A pair for a key that the hash has already replaces the old one.
Assoc(pairs, p) ==
  IF \E i \in DOMAIN pairs : pairs[i][1] = p[1]
  THEN [i \in DOMAIN pairs |-> IF pairs[i][1] = p[1] THEN p ELSE pairs[i]]
  ELSE Append(pairs, p)
\* The pairs of a hash made by setting one after the other.
Associated(pairs) ==
  LET sofar[i \in 0..Len(pairs)] ==
        IF i = 0 THEN <<>> ELSE Assoc(sofar[i - 1], pairs[i])
  IN sofar[Len(pairs)]

ValuesOf(copies) == [i \in DOMAIN copies |-> copies[i].v]
ArrayOf(copies) ==
  UnlessFailed(copies, [t |-> "array", v |-> ValuesOf(copies)])
HashOf(copies) ==
  UnlessFailed(copies, [t |-> "hash", v |-> Associated(ValuesOf(copies))])

------------------------------------------------------------------------------
(* From the host to the guest.                                              *)

\* Mutant: the exception stays in the interpreter.
CheckOnly(v, x) == IF x = "error" THEN Failed("GuestErr", x) ELSE Copied(v, x)
\* me_value_guest_check_exception after a constructor has made v: it takes
\* whatever exception there is; that of `exit` is no error.
CheckException(v, x) ==
  IF x = "error" THEN Failed("GuestErr", "none") ELSE Copied(v, "none")

\* mrb_hash_set asks a key that is an array or a hash for its hash.
AfterHashSet(k, x) == IF rude /\ k.t \in Containers THEN "error" ELSE x

\* me_value_assoc: the hash has taken the exception when it was made.
GuestPair(p, deeper, x) ==
  LET k == deeper[p[1]][x]
      v == deeper[p[2]][k.exc]
  IN IF k.err # "NoErr" THEN k
     ELSE IF v.err # "NoErr" THEN v
     ELSE CheckException(<<k.v, v.v>>, AfterHashSet(k.v, v.exc))

\* The new array or hash, then its contents; each push checks for itself that
\* there is no exception, and leaves none.
GuestArray(elements, deeper, x) ==
  LET new == CheckException(<<>>, x)
  IN IF new.err # "NoErr" THEN new
     ELSE ArrayOf([i \in DOMAIN elements |-> deeper[elements[i]][new.exc]])
GuestHash(pairs, deeper, x) ==
  LET new == CheckException(<<>>, x)
  IN IF new.err # "NoErr" THEN new
     ELSE HashOf([i \in DOMAIN pairs |-> GuestPair(pairs[i], deeper, new.exc)])

\* me_value_to_guest_r at one depth, from what it does one deeper.
GuestCopy(value, deeper, depth, x) ==
  IF depth > DepthMax THEN Failed("TooDeep", x)
  ELSE CASE value.t \in Immediate -> Copied(value, x)
         [] value.t = "fixnum" -> CheckException(value, x)
         [] value.t \in {"string", "symbol"} ->
              CheckException([t |-> value.t, v |-> value.v], x)
         [] value.t = "array" -> GuestArray(value.v, deeper, x)
         [] value.t = "loop" -> GuestArray(<<value>>, deeper, x)
         [] value.t = "hash" -> GuestHash(value.v, deeper, x)
         [] OTHER -> Failed("Unsupported", x)
ToGuest[depth \in Nat] ==
  [value \in HostVals |->
     [x \in Excs |-> GuestCopy(value, ToGuest[depth + 1], depth, x)]]

------------------------------------------------------------------------------
(* From the guest to the host, where constructors raise and set no error.   *)

\* Mutants: one level less, and one more, than the guest may have.
ShallowDepth(depth) == depth >= DepthMax
LooseDepth(depth) == depth > DepthMax + 1
\* me_value_to_host_r: the check it begins with.
DeeperThanMax(depth) == depth > DepthMax

\* me_value_host_string_new labels the bytes as UTF-8.
HostString(text) == [t |-> "string", v |-> text, enc |-> "UTF-8"]
\* me_value_host_symbol_new interns them as UTF-8.
HostSymbol(text) ==
  [t |-> "symbol", v |-> text,
   enc |-> IF text \in AsciiTexts THEN "US-ASCII" ELSE "UTF-8"]

HostPair(p, deeper) ==
  LET k == deeper[p[1]]
      v == deeper[p[2]]
  IN IF k.err # "NoErr" THEN k
     ELSE IF v.err # "NoErr" THEN v ELSE Copied(<<k.v, v.v>>, "none")

HostArray(elements, deeper) ==
  ArrayOf([i \in DOMAIN elements |-> deeper[elements[i]]])
HostHash(pairs, deeper) ==
  HashOf([i \in DOMAIN pairs |-> HostPair(pairs[i], deeper)])

HostCopy(value, deeper, depth) ==
  IF DeeperThanMax(depth) THEN Failed("TooDeep", "none")
  ELSE CASE value.t \in Immediate -> Copied(value, "none")
         [] value.t = "symbol" /\ value.v \in Utf8Texts ->
              Copied(HostSymbol(value.v), "none")
         [] value.t = "symbol" /\ value.v \notin Utf8Texts ->
              Failed("EncodingError", "none")
         [] value.t = "fixnum" /\ value.v \in HostFixnums ->
              Copied(value, "none")
         [] value.t = "fixnum" /\ value.v \notin HostFixnums ->
              Failed("OutOfRange", "none")
         [] value.t = "string" -> Copied(HostString(value.v), "none")
         [] value.t = "array" -> HostArray(value.v, deeper)
         [] value.t = "loop" -> HostArray(<<value>>, deeper)
         [] value.t = "hash" -> HostHash(value.v, deeper)
         [] OTHER -> Failed("Unsupported", "none")
ToHost[depth \in Nat] ==
  [value \in GuestVals |-> HostCopy(value, ToHost[depth + 1], depth)]

------------------------------------------------------------------------------
MarshalInit ==
  /\ ivar = Nil /\ exc = "none" /\ rude = FALSE
  /\ outcome = <<"eval", "NoErr">> /\ given = {}

\* A script assigns the variable; a call that ends in an internal error
\* leaves the exception of its script in the interpreter.
Script(value) ==
  /\ ivar' = value /\ exc' \in Excs /\ rude' \in BOOLEAN
  /\ outcome' = <<"eval", "NoErr">> /\ given' = {}

\* Mutant: what a failed copy returns is assigned.
SetAlways(copy, value) == ivar' = copy.v /\ given' = {value}
\* The early return of me_mruby_engine_inject, and mrb_iv_set.
SetUnlessFailed(copy, value) ==
  \/ /\ copy.err = "NoErr" /\ ivar' = copy.v /\ given' = {value}
  \/ copy.err # "NoErr" /\ UNCHANGED <<ivar, given>>

\* ext_mruby_engine_inject
Inject(value) ==
  LET copy == ToGuest[0][value][exc]
  IN /\ SetUnlessFailed(copy, value) /\ exc' = copy.exc
     /\ outcome' = <<"inject", copy.err>> /\ UNCHANGED rude

\* ext_mruby_engine_extract; the copy goes to the caller.
Extract ==
  /\ outcome' = <<"extract", ToHost[0][ivar].err>>
  /\ UNCHANGED <<ivar, exc, rude, given>>

MarshalNext ==
  \/ \E value \in GuestValues : Script(value)
  \/ \E value \in HostValues : Inject(value)
  \/ Extract

MarshalSpec == MarshalInit /\ [][MarshalNext]_marshalVars

------------------------------------------------------------------------------
\* Neither a string nor a symbol of another encoding in it, at any depth: a
\* symbol that is not ASCII would come back as another one, or not at all.
Utf8Leaves ==
  {leaf \in HostLeaves :
     /\ leaf.t = "string" => leaf.enc = "UTF-8"
     /\ leaf.t = "symbol" => leaf.enc \in {"US-ASCII", "UTF-8"}}
InUtf8(value) == value \in NestedIn(Utf8Leaves \cup {Loop}, MaxNesting)

\* What nests no deeper than the limit: not a value that contains itself.
HostShallow == NestedIn(HostLeaves, DepthMax)
GuestShallow == NestedIn(GuestLeaves, DepthMax)

\* "extracts a hash" (spec/mruby_engine_spec.rb): whatever inject accepted
\* whose strings and symbols are UTF-8, to the last level of nesting, extract
\* gives back equal and in the same order, as long as no script assigns the
\* variable.
InjectedComesBack ==
  \A value \in given :
    InUtf8(value) => ToHost[0][ivar] = Copied(value, "none")

\* The other way round: what extract hands out, called UTF-8, can be injected
\* again and means the same, so the two limits on nesting and the types the two sides
\* know are the same ones.  An exception that was left in the interpreter or
\* that the guest's own code raises may still stop it.
ExtractedGoesBack ==
  LET out == ToHost[0][ivar]
  IN out.err = "NoErr" /\ exc # "error" /\ ~rude =>
       ToGuest[0][out.v][exc].v = ivar

\* The two recursions are inverses: values whose text is UTF-8 survive the way
\* in and out, and whatever comes out goes in again.
RoundTrips == InjectedComesBack /\ ExtractedGoesBack

\* "structure nested too deeply": refused on either side for nothing else
\* than the nesting, also of a value that contains itself, and what is
\* accepted nests no deeper.
TooDeepMeansDeep ==
  /\ ToHost[0][ivar].err = "NoErr" => ivar \in GuestShallow
  /\ ivar \in GuestShallow => ToHost[0][ivar].err # "TooDeep"
  /\ \A value \in given : value \in HostShallow

\* An inject that raises, wherever in the value it stopped, leaves the
\* guest's variable as it was; and an exception is reported once: it is not
\* there any more for the next call to blame.
FailedInjectIsHarmless ==
  [][outcome'[1] = "inject" /\ outcome'[2] # "NoErr" =>
       /\ ivar' = ivar
       /\ outcome'[2] = "GuestErr" =>
            exc' = "none" /\ (exc = "error" \/ rude)]_marshalVars
==============================================================================
