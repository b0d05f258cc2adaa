---------------------------- MODULE CookieParsing ----------------------------
(***************************************************************************)
(* Which session token a request's cookies carry                           *)
(* (_internal/cookie_parsing.py, with extract() and the structural rungs   *)
(* of cookie_verifier.py and remote_verifier.py).                          *)
(*                                                                         *)
(* A cookie's name is the cookie it is for and the index of its chunk. A   *)
(* value is a sequence of pieces: a dot, one percent-escaped once or       *)
(* twice, an escape that is not UTF-8, a blank, a text without dots, or a  *)
(* MAC, which stands for the characters that spell it.                     *)
(***************************************************************************)
EXTENDS Integers, Sequences, FiniteSets, SequencesExt

CONSTANTS
  MaxHeader,  \* MAX_COOKIE_HEADER_BYTES, in pieces
  MaxPairs,   \* MAX_COOKIE_PAIRS
  MaxChunks,  \* MAX_CHUNKS
  MaxCookie,  \* MAX_COOKIE_BYTES, in pieces
  MaxToken    \* Mode C's MAX_TOKEN_BYTES, in pieces

ASSUME CookieParsingAssumption ==
  {MaxHeader, MaxPairs, MaxChunks, MaxCookie, MaxToken} \subseteq Nat

Whole == -1   \* the index of a cookie that was not split

Text(s) == [text |-> s, mac |-> <<>>]
Mac(key, message) == [text |-> "mac", mac |-> <<key, message>>]

Dot       == Text(".")
Escaped   == Text("%2E")
Twice     == Text("%252E")
NotUtf8   == Text("%FF")
Blank     == Text(" ")

IsBlank(value) == \A i \in DOMAIN value : value[i] = Blank

\* The lines of a header in one: a cookie that is sent twice is there twice.
Numbered(lines) ==
  LET header == FlattenSeq(lines) IN
  {[at |-> i, cookie |-> header[i].cookie, index |-> header[i].index,
    value |-> header[i].value] : i \in DOMAIN header}

\* A fragment is no pair.
CookiePairs(lines) == {p \in Numbered(lines) : p.cookie # "fragment"}

Size(lines) ==
  FoldSeq(LAMBDA p, n : n + 1 + Len(p.value), 0, FlattenSeq(lines))

IsOversized(lines) ==
  Size(lines) > MaxHeader \/ Cardinality(CookiePairs(lines)) > MaxPairs

\* One posture, never both: a sibling that plants the other name is not read.
MutantAcceptableNames(base) == {"secure", "plain"} \X ({Whole} \cup 0 .. MaxChunks - 1)
AcceptableNames(base) == {base} \X ({Whole} \cup 0 .. MaxChunks - 1)

\* A blank cookie is absent, or planting one would make every request ambiguous.
Matched(lines, base) ==
  IF IsOversized(lines) THEN {}
  ELSE {p \in CookiePairs(lines) :
          <<p.cookie, p.index>> \in AcceptableNames(base) /\ ~IsBlank(p.value)}

------------------------------------------------------------------------------
\* The one value the cookies carry: a whole cookie, or a run of chunks from 0.
IsContiguous(chunks) == {p.index : p \in chunks} = 0 .. Cardinality(chunks) - 1

Reassembled(chunks) ==
  FlattenSeq([i \in 1 .. Cardinality(chunks) |->
                (CHOOSE p \in chunks : p.index = i - 1).value])

IsWhole(pairs) == \E p \in pairs : pairs = {p} /\ p.index = Whole

HasOneValue(pairs) ==
  \/ IsWhole(pairs)
  \/ /\ pairs # {} /\ \A p \in pairs : p.index # Whole
     /\ IsContiguous(pairs)
     /\ Len(Reassembled(pairs)) <= MaxCookie

ValueOf(pairs) ==
  IF IsWhole(pairs) THEN (CHOOSE p \in pairs : TRUE).value ELSE Reassembled(pairs)

------------------------------------------------------------------------------
\* A value down to a token and a signature, decoded once.
Unquoted(value) ==
  [i \in DOMAIN value |-> IF value[i] = Escaped THEN Dot
                          ELSE IF value[i] = Twice THEN Escaped ELSE value[i]]

LastDot(value) == SelectLastInSeq(value, LAMBDA piece : piece = Dot)

Token(value)     == SubSeq(Unquoted(value), 1, LastDot(Unquoted(value)) - 1)
Signature(value) ==
  SubSeq(Unquoted(value), LastDot(Unquoted(value)) + 1, Len(value))

IsSplit(value) ==
  /\ value \in BoundedSeq(ToSet(value), MaxCookie)
  /\ NotUtf8 \notin ToSet(value)
  /\ LastDot(Unquoted(value)) > 1

\* Mode A and Mode C's keyring: exactly what a MAC is spelled with.
IsSignedValue(value) ==
  IsSplit(value) /\ Len(Signature(value)) = 1 /\ Signature(value)[1].mac # <<>>

\* Mode C's first rung: any signature, the server's to judge.
IsLooselySigned(value) ==
  IsSplit(value) /\ Signature(value) # <<>> /\ Len(Token(value)) <= MaxToken

\* Every key is tried: which of them matched makes no difference.
Verifies(keyring, value) ==
  \E key \in keyring : Signature(value) = <<Mac(key, Token(value))>>
=============================================================================
