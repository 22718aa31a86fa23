----------------------------- MODULE HttpClient -----------------------------
(***************************************************************************)
(* HttpClient::fetchUrlContents: one call, in either of its two builds,   *)
(* against a server and a network that may fail at every blocking step.   *)
(*                                                                         *)
(*  - the libcurl build (RESIDUE_HAS_CURL) performs the transfer, whose   *)
(*    write callback appends each chunk to the result, and returns the    *)
(*    result whatever curl_easy_perform reported;                          *)
(*  - the Boost.Asio build parses the URL (throwing out of the call when  *)
(*    it is invalid or not http), then, inside a try, connects, sends an  *)
(*    HTTP/1.0 GET, checks the status line, skips the headers and reads   *)
(*    the body until EOF; any exception in the try returns "".            *)
(*                                                                         *)
(* The body is a sequence of chunks; what a read delivers is abstracted to *)
(* whole chunks.                                                           *)
(***************************************************************************)
EXTENDS Naturals, Sequences

CONSTANTS
    Chunks,     \* what one read or one write callback may carry
    MaxChunks,  \* bound on the length of a response body
    Statuses,   \* status codes the server may answer with
    UrlKinds    \* "http", "https" or "invalid"

ASSUME HttpAssumption ==
    /\ MaxChunks \in Nat
    /\ 200 \in Statuses
    /\ UrlKinds \subseteq {"http", "https", "invalid"}

VARIABLES
    hpc,        \* where the calling thread is in fetchUrlContents
    url,        \* the kind of URL it was called with
    status,     \* the status code the server answers with
    body,       \* the body the server sends
    got,        \* result (libcurl) or ss and the streambuf (Asio): what has arrived
    errored,    \* a transfer or read failed (not a clean end of stream)
    ret         \* the returned string, once the call returns

httpVars == <<hpc, url, status, body, got, errored, ret>>

Bodies == UNION {[1..n -> Chunks] : n \in 0..MaxChunks}

NoReturn == <<"none">>

HttpInit ==
    /\ hpc = "start"
    /\ url \in UrlKinds
    /\ status \in Statuses
    /\ body \in Bodies
    /\ got = <<>>
    /\ errored = FALSE
    /\ ret = NoReturn

(* A blocking step ends with an exception caught by the catch of line 152, *)
(* or the call goes on at to.                                              *)
Step(to) ==
    \/ hpc' = "caught" /\ errored' = TRUE
    \/ hpc' = to /\ UNCHANGED errored

-----------------------------------------------------------------------------
(* libcurl: curl_easy_init may fail, in which case nothing is performed.  *)
CurlInit ==
    /\ hpc = "start"
    /\ hpc' \in {"perform", "cleanup"}
    /\ UNCHANGED <<url, status, body, got, errored, ret>>

(* curl_easy_perform: a malformed URL fails at once; otherwise each chunk *)
(* of the response body (whatever its status) goes through writeCallback, *)
(* whose resize may throw bad_alloc, returning 0 and aborting the         *)
(* transfer; the connection may fail between chunks, or after the last   *)
(* one (a reset before the server's close, a timeout at the end).         *)
CurlPerform ==
    /\ hpc = "perform"
    /\ \/ url = "invalid" /\ hpc' = "cleanup" /\ errored' = TRUE /\ UNCHANGED got
       \/ /\ url # "invalid"
          /\ Len(got) < Len(body)
          /\ \/ got' = Append(got, body[Len(got) + 1]) /\ UNCHANGED <<hpc, errored>>
             \/ hpc' = "cleanup" /\ errored' = TRUE /\ UNCHANGED got
       \/ /\ url # "invalid" /\ Len(got) = Len(body) /\ hpc' = "cleanup"
          /\ errored' \in BOOLEAN /\ UNCHANGED got
    /\ UNCHANGED <<url, status, body, ret>>

(* res != CURLE_OK is only logged: cleanup, then return result.           *)
CurlReturn ==
    /\ hpc = "cleanup"
    /\ hpc' = "done"
    /\ ret' = got
    /\ UNCHANGED <<url, status, body, got, errored>>

-----------------------------------------------------------------------------
(* Boost.Asio: Url::isValid and Url::isHttp are checked before the try, so an   *)
(* invalid or non-http URL throws out of fetchUrlContents.                 *)
AsioParseUrl ==
    /\ hpc = "start"
    /\ hpc' = IF url = "http" THEN "connect" ELSE "thrown"
    /\ UNCHANGED <<url, status, body, got, errored, ret>>

(* resolve, connect and write the GET request: each may throw.            *)
AsioConnect ==
    /\ hpc = "connect"
    /\ Step("statusLine")
    /\ UNCHANGED <<url, status, body, got, ret>>

(* Mutant: the status code is not checked.                               *)
AsioReadStatusAnyCode ==
    /\ hpc = "statusLine"
    /\ Step("headers")
    /\ UNCHANGED <<url, status, body, got, ret>>

(* read_until "\r\n" and the status line check: a failed read, a line     *)
(* that is not HTTP/ or a status other than 200 throws.                   *)
AsioReadStatus ==
    /\ hpc = "statusLine"
    /\ IF status = 200 THEN Step("headers")
       ELSE hpc' = "caught" /\ errored' = TRUE
    /\ UNCHANGED <<url, status, body, got, ret>>

(* read_until "\r\n\r\n": the streambuf may already hold the first chunks *)
(* of the body, which are written to ss.                                   *)
AsioReadHeaders ==
    /\ hpc = "headers"
    /\ \/ hpc' = "caught" /\ errored' = TRUE /\ UNCHANGED got
       \/ \E k \in 0..Len(body) :
            hpc' = "body" /\ got' = SubSeq(body, 1, k) /\ UNCHANGED errored
    /\ UNCHANGED <<url, status, body, ret>>

(* Mutant: a read error ends the loop like the end of the stream.        *)
AsioReadBodyErrorAsEof ==
    /\ hpc = "body"
    /\ \/ Len(got) < Len(body) /\ got' = Append(got, body[Len(got) + 1])
             /\ UNCHANGED <<hpc, errored, ret>>
       \/ hpc' = "done" /\ ret' = got /\ errored' \in BOOLEAN /\ UNCHANGED got
    /\ UNCHANGED <<url, status, body>>

(* One read of at least one byte: a chunk, a failure (error other than    *)
(* eof, thrown after the loop), or the end of the stream, which the server *)
(* may also signal early by closing the connection.                       *)
AsioReadBody ==
    /\ hpc = "body"
    /\ \/ Len(got) < Len(body) /\ got' = Append(got, body[Len(got) + 1])
             /\ UNCHANGED <<hpc, errored, ret>>
       \/ hpc' = "caught" /\ errored' = TRUE /\ UNCHANGED <<got, ret>>
       \/ hpc' = "done" /\ ret' = got /\ UNCHANGED <<got, errored>>
    /\ UNCHANGED <<url, status, body>>

(* The catch of line 152: log, then return "" at line 155.                *)
AsioCaught ==
    /\ hpc = "caught"
    /\ hpc' = "done"
    /\ ret' = <<>>
    /\ UNCHANGED <<url, status, body, got, errored>>

(* The call has returned or thrown.                                       *)
Finished ==
    /\ hpc \in {"done", "thrown"}
    /\ UNCHANGED httpVars

(* The libcurl build (RESIDUE_HAS_CURL).                                   *)
CurlNext == CurlInit \/ CurlPerform \/ CurlReturn \/ Finished

CurlSpec == HttpInit /\ [][CurlNext]_httpVars

(* The Boost.Asio build.                                                   *)
AsioNext ==
    \/ AsioParseUrl \/ AsioConnect \/ AsioReadStatus \/ AsioReadHeaders \/ AsioReadBody
    \/ AsioCaught
    \/ Finished

AsioSpec == HttpInit /\ [][AsioNext]_httpVars

-----------------------------------------------------------------------------
HttpTypeOK ==
    /\ hpc \in {"start", "perform", "cleanup", "connect", "statusLine", "headers", "body",
                "caught", "done", "thrown"}
    /\ url \in UrlKinds
    /\ status \in Statuses
    /\ body \in Bodies
    /\ got \in Bodies
    /\ errored \in BOOLEAN
    /\ ret \in Bodies \cup {NoReturn}

(* What fetchUrlContents returns is content only when the server answered *)
(* 200: an error status yields "", never the server's error page.          *)
ContentOnlyFromOk == hpc = "done" /\ ret # <<>> => status = 200

(* A transfer that failed part way returns "", never the truncated part   *)
(* that had arrived: the caller cannot tell a truncated result from a     *)
(* complete one.                                                           *)
NoContentAfterError == hpc = "done" /\ errored => ret = <<>>

=============================================================================
