------------------------------ MODULE Mentions ------------------------------
(***************************************************************************)
(* The `--mention` argument of `group send` (internal/group/mention.go):   *)
(* what a specification says, and where in the text it points.             *)
(*                                                                         *)
(* A text is a sequence of code points, a code point the tuple of bytes    *)
(* UTF-8 gives it; the code searches bytes and counts code points.  A      *)
(* specification is                                                        *)
(*   [surface |-> the word after "@", or None, target |-> what follows,    *)
(*    cut at its colons, role |-> the role option, or None,                *)
(*    range |-> the range option <<start, end>>, or None].                 *)
(***************************************************************************)
EXTENDS Integers, Sequences, FiniteSetsExt, SequencesExt

CONSTANTS
  CodePoint, \* the code points a text is made of
  At,        \* the code point "@"
  Continue,  \* bytes that continue a code point
  Spelled,   \* Spelled[w]: the code points of the word w
  None       \* no value

Selector == {"all", "agents", "humans"}
RoleName == {"addressee", "cc"}
Error == None \* what a refused specification becomes
Byte == UNION {Range(c) : c \in CodePoint}

\* What UTF-8 guarantees: a byte tells whether it begins a code point, and
\* no code point is the beginning of another.
Utf8 ==
  /\ At \in CodePoint
  /\ \A w \in DOMAIN Spelled : Spelled[w] \in Seq(CodePoint)
  /\ \A c \in CodePoint :
       /\ c \in Seq(Byte) /\ c # <<>>
       /\ \A i \in DOMAIN c : c[i] \in Continue <=> i > 1
       /\ \A d \in CodePoint : IsPrefix(c, d) => c = d

\* A specification's surface is a word, its range a pair of integers.
WellFormed(raw) == /\ raw.surface \in DOMAIN Spelled \cup {None}
                   /\ raw.range \in (Int \X Int) \cup {None}
-----------------------------------------------------------------------------
(* ParseMentionSpec. *)

\* normalizeRole: the empty role is the addressee.
RoleToken == RoleName \cup {""}
RoleOf(r) == IF r = "" THEN "addressee" ELSE r

Parsed(raw, role, kind, whom) ==
  [surface |-> raw.surface, role |-> role, range |-> raw.range, kind |-> kind, whom |-> whom]

\* What is left after the optional role: did:..., a selector, or kind:value.
Target(raw, role, rest) ==
  LET kind == Head(rest)
      value == Tail(rest)
  IN
  IF Len(rest) = 1
  THEN IF kind \in Selector THEN Parsed(raw, role, "group_selector", kind) ELSE Error
  ELSE CASE kind = "did" -> Parsed(raw, role, "human", rest)
         [] kind \in {"human", "agent"} ->
              IF value = <<"">> THEN Error ELSE Parsed(raw, role, kind, value)
         [] kind = "group_selector" ->
              IF Len(value) = 1 /\ value[1] \in Selector
              THEN Parsed(raw, role, kind, value[1]) ELSE Error
         [] kind \in Selector -> Parsed(raw, role, "group_selector", kind)
         [] OTHER -> Error

ParseMentionSpec(raw) ==
  LET given == IF raw.role = None THEN None ELSE RoleOf(raw.role)
      t == raw.target
  IN
  CASE raw.role # None /\ raw.role \notin RoleToken -> Error
    [] raw.surface # None /\ t = <<>> ->
         IF raw.surface \in Selector THEN Parsed(raw, given, "group_selector", raw.surface)
         ELSE Error
    [] t = <<>> -> Error
    [] Len(t) > 1 /\ Head(t) \in RoleToken ->
         IF given # None THEN Error ELSE Target(raw, Head(t), Tail(t))
    [] OTHER -> Target(raw, given, t)
-----------------------------------------------------------------------------
(* CodepointRange. *)

Bytes(text) == FlattenSeq(text)
Needle(w) == <<At>> \o Spelled[w]

\* utf8.RuneCountInString
RuneCount(bytes) == Cardinality({i \in DOMAIN bytes : bytes[i] \notin Continue})

\* strings.Index: how many bytes come before the first occurrence.
Occurs(bytes, needle, i) == SubSeq(bytes, i + 1, i + Len(needle)) = needle
Places(bytes, needle) == {i \in 0 .. Len(bytes) - Len(needle) : Occurs(bytes, needle, i)}

Located(text, w) == Places(Bytes(text), Bytes(Needle(w))) # {}
FoundAt(text, w) == Min(Places(Bytes(text), Bytes(Needle(w))))

\* A mutant: the offset in bytes.
ByteRange(text, w) ==
  LET start == FoundAt(text, w)
  IN <<start, start + Len(Bytes(Needle(w)))>>

CodepointRange(text, w) ==
  LET start == RuneCount(SubSeq(Bytes(text), 1, FoundAt(text, w)))
  IN <<start, start + RuneCount(Bytes(Needle(w)))>>
-----------------------------------------------------------------------------
(* BuildMentions. *)

HasSurface(spec) == spec.surface \notin {None, ""}

\* An explicit range overrides the one that is located, but the surface has
\* to be there.
RangeOf(text, spec) ==
  IF spec.range # None THEN spec.range ELSE CodepointRange(text, spec.surface)

BuildMention(text, index, spec) ==
  IF \/ HasSurface(spec) /\ ~Located(text, spec.surface)
     \/ ~HasSurface(spec) /\ spec.range = None
  THEN Error
  ELSE LET r == RangeOf(text, spec) IN
       IF r[1] >= r[2] \/ r[2] > RuneCount(Bytes(text)) THEN Error
       ELSE [role |-> IF spec.role = "cc" THEN "cc" ELSE None,
             range |-> r, kind |-> spec.kind, whom |-> spec.whom, id |-> index]

\* The mentions array of a message, or Error: one bad specification is enough.
BuildMentions(text, raws) ==
  LET spec == [i \in DOMAIN raws |-> ParseMentionSpec(raws[i])] IN
  IF Error \in Range(spec) THEN Error
  ELSE LET built == [i \in DOMAIN raws |-> BuildMention(text, i, spec[i])]
       IN  IF Error \in Range(built) THEN Error ELSE built
-----------------------------------------------------------------------------
(* Reference definitions. *)

\* The first place, in code points, where the text reads "@" and the word.
FirstPlace(text, w) == Min(Places(text, Needle(w)))
=============================================================================
