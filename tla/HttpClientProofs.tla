------------------------- MODULE HttpClientProofs --------------------------
(***************************************************************************)
(* Proofs about the Boost.Asio build of HttpClient::fetchUrlContents, for  *)
(* every set of chunks, every bound on the body and every set of status   *)
(* codes.  The two fault properties are not inductive as they stand: that *)
(* a returned body came from a clean read of a 200 answer rests on what   *)
(* holds on the way there, which AsioIInv records.                        *)
(***************************************************************************)
EXTENDS HttpClient, SequenceTheorems, TLAPS

USE HttpAssumption

(* The points of the call before the catch: no exception has been caught. *)
BeforeCatch == {"start", "connect", "statusLine", "headers", "body"}

(* s is the first Len(s) chunks of b.                                      *)
PrefixOf(s, b) == Len(s) <= Len(b) /\ s = SubSeq(b, 1, Len(s))

(* The inductive invariant of the Asio build.                              *)
AsioIInv ==
    /\ HttpTypeOK
    /\ PrefixOf(got, body)
    /\ hpc = "done" => PrefixOf(ret, body)
    /\ hpc \in BeforeCatch => ~errored
    /\ hpc \in {"headers", "body"} => status = 200
    /\ hpc = "done" => ret = <<>> \/ (status = 200 /\ ~errored)

-----------------------------------------------------------------------------
(* A body is a sequence of chunks no longer than MaxChunks ...            *)
LEMMA BodyIsSeq ==
    ASSUME NEW s \in Bodies
    PROVE  s \in Seq(Chunks) /\ Len(s) <= MaxChunks
<1>1. PICK n \in 0..MaxChunks : s \in [1..n -> Chunks]
  BY DEF Bodies
<1>2. s \in Seq(Chunks)
  BY <1>1, SeqDef
<1>3. DOMAIN s = 1..n /\ DOMAIN s = 1..Len(s) /\ Len(s) \in Nat
  BY <1>1, <1>2, LenProperties
<1>4. Len(s) = n
  BY <1>3
<1>5. QED
  BY <1>2, <1>4

(* ... and every such sequence is a body.                                  *)
LEMMA SeqIsBody ==
    ASSUME NEW s \in Seq(Chunks), Len(s) <= MaxChunks
    PROVE  s \in Bodies
<1>1. Len(s) \in 0..MaxChunks /\ s \in [1..Len(s) -> Chunks]
  BY LenProperties
<1>2. QED
  BY <1>1, Zenon DEF Bodies

(* The empty string is a body.                                             *)
LEMMA EmptyBody == <<>> \in Bodies
<1>1. <<>> \in [1..0 -> Chunks] /\ 0 \in 0..MaxChunks
  OBVIOUS
<1>2. QED
  BY <1>1 DEF Bodies

(* One more chunk of the server's body, read after the first Len(g):      *)
(* what has arrived stays a body.                                          *)
LEMMA AppendBody ==
    ASSUME NEW g \in Bodies, NEW b \in Bodies, Len(g) < Len(b)
    PROVE  Append(g, b[Len(g) + 1]) \in Bodies
<1>1. g \in Seq(Chunks) /\ b \in Seq(Chunks) /\ Len(b) <= MaxChunks
  BY BodyIsSeq
<1>2. Len(g) \in Nat /\ Len(b) \in Nat
  BY <1>1, LenProperties
<1>3. b[Len(g) + 1] \in Chunks
  BY <1>1, <1>2, ElementOfSeq
<1>4. Append(g, b[Len(g) + 1]) \in Seq(Chunks)
      /\ Len(Append(g, b[Len(g) + 1])) = Len(g) + 1
  BY <1>1, <1>3, AppendProperties
<1>5. Len(g) + 1 <= MaxChunks
  BY <1>1, <1>2
<1>6. QED
  BY <1>4, <1>5, SeqIsBody, Zenon

(* What the streambuf held after the headers, a prefix of the body, is a *)
(* body.                                                                    *)
LEMMA PrefixBody ==
    ASSUME NEW b \in Bodies, NEW k \in 0..Len(b)
    PROVE  SubSeq(b, 1, k) \in Bodies
<1>1. b \in Seq(Chunks) /\ Len(b) <= MaxChunks /\ Len(b) \in Nat
  BY BodyIsSeq, LenProperties
<1>2. \A i \in 1..k : b[i] \in Chunks
  BY <1>1, ElementOfSeq
<1>3. SubSeq(b, 1, k) \in Seq(Chunks) /\ Len(SubSeq(b, 1, k)) = IF 1 <= k THEN k ELSE 0
  BY <1>2, SubSeqProperties
<1>4. Len(SubSeq(b, 1, k)) <= MaxChunks
  BY <1>1, <1>3
<1>5. QED
  BY <1>3, <1>4, SeqIsBody, Zenon

(* The buffered part of the body after the headers, the first k chunks,   *)
(* is a prefix of it; so is "" (k = 0).                                     *)
LEMMA PrefixFirst ==
    ASSUME NEW b \in Bodies, NEW k \in 0..Len(b)
    PROVE  PrefixOf(SubSeq(b, 1, k), b) /\ PrefixOf(<<>>, b)
<1>1. b \in Seq(Chunks) /\ Len(b) \in Nat
  BY BodyIsSeq, LenProperties
<1>2. \A i \in 1..k : b[i] \in Chunks
  BY <1>1, ElementOfSeq
<1>3. Len(SubSeq(b, 1, k)) = k
  BY <1>2, SubSeqProperties
<1>4. SubSeq(b, 1, 0) = <<>>
  BY SubSeqEmpty
<1>5. QED
  BY <1>1, <1>3, <1>4, EmptySeq DEF PrefixOf

(* Reading the chunk after the first Len(g) keeps what has arrived a       *)
(* prefix of the body.                                                      *)
LEMMA PrefixAppend ==
    ASSUME NEW g \in Bodies, NEW b \in Bodies, PrefixOf(g, b), Len(g) < Len(b)
    PROVE  PrefixOf(Append(g, b[Len(g) + 1]), b)
<1> DEFINE n == Len(g)
           x == b[n + 1]
<1>1. g \in Seq(Chunks) /\ b \in Seq(Chunks) /\ n \in Nat /\ Len(b) \in Nat
  BY BodyIsSeq, LenProperties
<1>2. \A i \in 1..(n + 1) : b[i] \in Chunks
  BY <1>1, ElementOfSeq
<1>3. /\ SubSeq(b, 1, n + 1) \in Seq(Chunks)
      /\ Len(SubSeq(b, 1, n + 1)) = n + 1
      /\ \A i \in 1..(n + 1) : SubSeq(b, 1, n + 1)[i] = b[i]
  BY <1>1, <1>2, SubSeqProperties
<1>4. /\ SubSeq(b, 1, n) \in Seq(Chunks)
      /\ \A i \in 1..n : SubSeq(b, 1, n)[i] = b[i]
  BY <1>1, <1>2, SubSeqProperties
<1>5. /\ Append(g, x) \in Seq(Chunks)
      /\ Len(Append(g, x)) = n + 1
      /\ \A i \in 1..n : Append(g, x)[i] = g[i]
      /\ Append(g, x)[n + 1] = x
  BY <1>1, <1>2, AppendProperties
<1>6. \A i \in 1..n : g[i] = b[i]
  BY <1>4 DEF PrefixOf
<1>7. Append(g, x) = SubSeq(b, 1, n + 1)
  BY <1>3, <1>5, <1>6, SeqEqual
<1>8. QED
  BY <1>1, <1>5, <1>7 DEF PrefixOf

-----------------------------------------------------------------------------
LEMMA AsioInitIInv == HttpInit => AsioIInv
<1> SUFFICES ASSUME HttpInit PROVE AsioIInv
  OBVIOUS
<1>1. body \in Bodies /\ 0 \in 0..Len(body)
  BY BodyIsSeq, LenProperties DEF HttpInit
<1>2. PrefixOf(got, body)
  BY <1>1, PrefixFirst DEF HttpInit
<1>3. QED
  BY <1>2, EmptyBody, Zenon DEF HttpInit, AsioIInv, HttpTypeOK, BeforeCatch, NoReturn

LEMMA AsioNextIInv == AsioIInv /\ [AsioNext]_httpVars => AsioIInv'
<1> SUFFICES ASSUME AsioIInv, [AsioNext]_httpVars PROVE AsioIInv'
  OBVIOUS
<1>1. CASE AsioParseUrl
  BY <1>1 DEF AsioParseUrl, AsioIInv, HttpTypeOK, BeforeCatch
<1>2. CASE AsioConnect
  <2>1. CASE hpc' = "caught" /\ errored' = TRUE
    BY <1>2, <2>1 DEF AsioConnect, AsioIInv, HttpTypeOK, BeforeCatch
  <2>2. CASE hpc' = "statusLine" /\ UNCHANGED errored
    BY <1>2, <2>2 DEF AsioConnect, AsioIInv, HttpTypeOK, BeforeCatch
  <2>3. QED
    BY <1>2, <2>1, <2>2, Zenon DEF AsioConnect, Step
<1>3. CASE AsioReadStatus
  <2>1. CASE hpc' = "caught" /\ errored' = TRUE
    BY <1>3, <2>1 DEF AsioReadStatus, AsioIInv, HttpTypeOK, BeforeCatch
  <2>2. CASE status = 200 /\ hpc' = "headers" /\ UNCHANGED errored
    BY <1>3, <2>2 DEF AsioReadStatus, AsioIInv, HttpTypeOK, BeforeCatch
  <2>3. QED
    BY <1>3, <2>1, <2>2, Zenon DEF AsioReadStatus, Step
<1>4. CASE AsioReadHeaders
  <2>1. CASE hpc' = "caught" /\ errored' = TRUE /\ UNCHANGED got
    BY <1>4, <2>1 DEF AsioReadHeaders, AsioIInv, HttpTypeOK, BeforeCatch
  <2>2. CASE \E k \in 0..Len(body) :
               hpc' = "body" /\ got' = SubSeq(body, 1, k) /\ UNCHANGED errored
    <3>1. PICK k \in 0..Len(body) : hpc' = "body" /\ got' = SubSeq(body, 1, k) /\ UNCHANGED errored
      BY <2>2
    <3>2. got' \in Bodies
      BY <3>1, PrefixBody DEF AsioIInv, HttpTypeOK
    <3>3. PrefixOf(got', body')
      BY <1>4, <3>1, PrefixFirst DEF AsioReadHeaders, AsioIInv, HttpTypeOK
    <3>4. QED
      BY <1>4, <3>1, <3>2, <3>3 DEF AsioReadHeaders, AsioIInv, HttpTypeOK, BeforeCatch
  <2>3. QED
    BY <1>4, <2>1, <2>2, Zenon DEF AsioReadHeaders
<1>5. CASE AsioReadBody
  <2>1. CASE Len(got) < Len(body) /\ got' = Append(got, body[Len(got) + 1])
               /\ UNCHANGED <<hpc, errored, ret>>
    <3>1. got' \in Bodies
      BY <2>1, AppendBody DEF AsioIInv, HttpTypeOK
    <3>2. PrefixOf(got', body')
      BY <1>5, <2>1, PrefixAppend DEF AsioReadBody, AsioIInv, HttpTypeOK
    <3>3. QED
      BY <1>5, <2>1, <3>1, <3>2 DEF AsioReadBody, AsioIInv, HttpTypeOK, BeforeCatch
  <2>2. CASE hpc' = "caught" /\ errored' = TRUE /\ UNCHANGED <<got, ret>>
    BY <1>5, <2>2 DEF AsioReadBody, AsioIInv, HttpTypeOK, BeforeCatch
  <2>3. CASE hpc' = "done" /\ ret' = got /\ UNCHANGED <<got, errored>>
    BY <1>5, <2>3 DEF AsioReadBody, AsioIInv, HttpTypeOK, BeforeCatch
  <2>4. QED
    BY <1>5, <2>1, <2>2, <2>3, Zenon DEF AsioReadBody
<1>6. CASE AsioCaught
  <2>1. PrefixOf(<<>>, body)
    <3>1. body \in Bodies /\ 0 \in 0..Len(body)
      BY BodyIsSeq, LenProperties DEF AsioIInv, HttpTypeOK
    <3>2. QED
      BY <3>1, PrefixFirst
  <2>2. QED
    BY <1>6, <2>1, EmptyBody DEF AsioCaught, AsioIInv, HttpTypeOK, BeforeCatch
<1>7. CASE Finished \/ UNCHANGED httpVars
  BY <1>7 DEF Finished, httpVars, AsioIInv, HttpTypeOK, BeforeCatch
<1>8. QED
  BY <1>1, <1>2, <1>3, <1>4, <1>5, <1>6, <1>7 DEF AsioNext

(* AsioIInv holds in every state of every run of the Asio build.            *)
LEMMA AsioIInvAlways == AsioSpec => []AsioIInv
BY AsioInitIInv, AsioNextIInv, PTL DEF AsioSpec

-----------------------------------------------------------------------------
(* Every variable of the Asio build keeps its type, and what has arrived  *)
(* in ss (the streambuf's leftover after read_until of the headers, lines *)
(* 137-139, then each read of the loop of lines 143-145) is always the    *)
(* first chunks of the server's body, in order and none twice, so never   *)
(* longer than it.                                                         *)
THEOREM AsioTypeCorrect == AsioSpec => [](HttpTypeOK /\ PrefixOf(got, body))
<1>1. AsioIInv => HttpTypeOK /\ PrefixOf(got, body)
  BY DEF AsioIInv
<1>2. QED
  BY <1>1, AsioIInvAlways, PTL

(* The status check of lines 119-121 throws into the catch for every code *)
(* other than 200, so the Asio build never returns an error page as       *)
(* content.                                                                 *)
THEOREM AsioContentOnlyFromOk == AsioSpec => []ContentOnlyFromOk
<1>1. AsioIInv => ContentOnlyFromOk
  BY DEF AsioIInv, ContentOnlyFromOk
<1>2. QED
  BY <1>1, AsioIInvAlways, PTL

(* A failed connect, write or read throws into the catch of line 152,     *)
(* which returns "" at line 155: the Asio build never returns what had    *)
(* arrived before the failure.                                             *)
THEOREM AsioNoContentAfterError == AsioSpec => []NoContentAfterError
<1>1. AsioIInv => NoContentAfterError
  BY DEF AsioIInv, NoContentAfterError
<1>2. QED
  BY <1>1, AsioIInvAlways, PTL

=============================================================================
