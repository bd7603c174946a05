----------------------------- MODULE EasyHandle -----------------------------
(***************************************************************************)
(* One CurlContext and its curl easy handle over a series of requests:     *)
(* what each native leaves set on the easy handle, the post body that the  *)
(* extension allocates and compresses, the headers, the received data      *)
(* (natives.cpp, context.cpp).                                             *)
(*                                                                         *)
(* While a request is under way no native gets at the context              *)
(* (AsyncExtension!NativesHaveItAlone), so there is one thread of control  *)
(* here: a native starts a request, the event thread works on it, the      *)
(* frame hook delivers it and the plugin may start the next one on the     *)
(* same handle.  The unload of the extension may cut in anywhere.          *)
(*                                                                         *)
(* A body is named by the number of the request it was given for, a piece  *)
(* of received data by the number of the request it answers.               *)
(***************************************************************************)
EXTENDS Integers, Sequences, Functions

CONSTANTS Blocks,         \* addresses that malloc may give to a post body
          NULL,
          HeaderLines,    \* lines a plugin may add
          IntSettings,    \* options and values a plugin may give to CurlSetInt
          MaxSize,        \* bound: size of a post body
          MaxStarts,      \* bound: requests on one handle
          MaxHeaders,     \* bound: header lines that a plugin adds
          MaxPieces       \* bound: pieces of data in the buffer

ASSUME BlocksAssumption == NULL \notin Blocks
ASSUME EHBoundsAssumption == MaxSize \in Nat /\ MaxStarts \in Nat /\ MaxHeaders \in Nat
                                /\ MaxPieces \in Nat
\* Options whose values matter here, with the values that curl accepts for them; it
\* refuses others and leaves things as they are.
ASSUME SettingsAssumption ==
    IntSettings \subseteq ({"TIMEOUT_MS", "POST"} \X Nat)
                              \cup ({"POSTFIELDSIZE"} \X (Nat \cup {-1}))
ASSUME HeadersAssumption == "Content-Encoding: gzip" \notin HeaderLines

VARIABLES
    \* where the request is; "none": there is no context; "unloaded": the extension
    \* has gone, the other variables say how things were then
    phase,
    \* fields of the CurlContext
    post, postLength, headers, buffer, curlcode,
    easy,     \* the options set on the easy handle
    memory,   \* the allocated post bodies
    \* history: the number of the last request, how it was started, the headers
    \* the plugin added, the timeout it wants and whether it set CURLOPT_POST or
    \* CURLOPT_POSTFIELDSIZE itself, whether curl_slist_append ever failed, what
    \* went out on the wire, the size given to the callback
    starts, asked, added, own, lost, sent, size

contextVars == <<post, postLength, headers, buffer, curlcode>>
wishVars == <<starts, asked, added, own, lost>>
ehVars == <<phase, contextVars, easy, memory, wishVars, sent, size>>

Default == 10000    \* g_default_timeout
Gzip == "Content-Encoding: gzip"

\* A body: the request it belongs to, the number of its bytes, their format.
Body(id, n, format) == [of |-> id, size |-> n, format |-> format]
NoBody == Body(0, 0, "none")
\* Bytes, at least one, that are no post body: of a block that was freed, and what
\* curl's read callback finds on standard input when there are no post fields.
Freed == Body(0, 1, "freed")
Stdin == Body(0, 1, "stdin")

NoFields == [copied |-> FALSE, block |-> NULL, body |-> NoBody]
NewEasy == [post |-> FALSE, fieldsize |-> -1, postfields |-> NoFields,
            httpheader |-> FALSE, timeout |-> Default]
NoWish == [timeout |-> Default, body |-> FALSE]
NoRequest == [native |-> "none", id |-> 0, size |-> 0]
Nothing == [method |-> "none", body |-> NoBody, headers |-> << >>]

EHInit ==
    /\ phase = "none"
    /\ post = NULL /\ postLength = 0 /\ headers = << >>
    /\ buffer = << >> /\ curlcode = -1
    /\ easy = NewEasy /\ memory = [a \in {} |-> NoBody]
    /\ starts = 0 /\ asked = NoRequest /\ added = {} /\ own = NoWish
    /\ lost = FALSE /\ sent = Nothing /\ size = 0

\* A fresh context: the constructor and CurlNew.
CurlNew ==
    /\ phase = "none"
    /\ phase' = "idle"
    /\ post' = NULL /\ postLength' = 0 /\ headers' = << >>
    /\ buffer' = << >> /\ curlcode' = -1
    /\ easy' = NewEasy
    /\ starts' = 0 /\ asked' = NoRequest /\ added' = {} /\ own' = NoWish
    /\ lost' = FALSE /\ sent' = Nothing /\ size' = 0
    /\ UNCHANGED memory

\* Mutant: the result of curl_slist_append is not tested.
AddHeader_Unchecked(line) ==
    \/ headers' = Append(headers, line) /\ UNCHANGED lost
    \/ lost' = TRUE /\ headers' = NULL

\* CurlContext::AddHeader
AddHeader(line) ==
    \/ headers' = Append(headers, line) /\ UNCHANGED lost
    \/ lost' = TRUE /\ UNCHANGED headers    \* curl_slist_append gives NULL

CurlAddHeader(line) ==
    /\ phase = "idle" /\ Len(SelectSeq(headers, LAMBDA l : l # Gzip)) < MaxHeaders
    /\ AddHeader(line)
    /\ added' = added \cup {line}
    /\ UNCHANGED <<phase, post, postLength, buffer, curlcode, easy,
                   memory, starts, asked, own, sent, size>>

\* What curl makes of an option: CURLOPT_POST chooses the method, a larger
\* CURLOPT_POSTFIELDSIZE drops the copy of post fields that is not that long.
WithOption(e, option, value) ==
    CASE option = "TIMEOUT_MS" -> [e EXCEPT !.timeout = value]
      [] option = "POST" -> [e EXCEPT !.post = (value # 0)]
      [] option = "POSTFIELDSIZE" ->
            [e EXCEPT !.fieldsize = value,
                      !.postfields = IF @.copied /\ e.fieldsize < value THEN NoFields ELSE @]

\* The options that natives that start a request set as well.  CurlNew also sets
\* CURLOPT_FOLLOWLOCATION and CURLOPT_MAXREDIRS, which no property here is about.
CurlSetInt(option, value) ==
    /\ phase = "idle"
    /\ easy' = WithOption(easy, option, value)
    /\ own' = IF option = "TIMEOUT_MS" THEN [own EXCEPT !.timeout = value]
              ELSE [own EXCEPT !.body = TRUE]
    /\ UNCHANGED <<phase, contextVars, memory, starts, asked, added, lost, sent, size>>

(***************************************************************************)
(* Starting a request.                                                     *)
(***************************************************************************)
\* A zlib stream is longer than a small body.
PackedLength(n) == n + 1

Free(mem, a) == Restrict(mem, DOMAIN mem \ {a})
Alloc(mem, a, body) == [b \in DOMAIN mem \cup {a} |-> IF b = a THEN body ELSE mem[b]]

\* Mutants: the length of the plain body is kept; the label is forgotten.
Compressed_OldLength(p, n, mem) ==
    \E a \in Blocks \ DOMAIN mem :
        /\ memory' = Alloc(Free(mem, p), a, Body(mem[p].of, PackedLength(n), "zlib"))
        /\ post' = a /\ postLength' = n
        /\ AddHeader(Gzip)

Compressed_NoLabel(p, n, mem) ==
    \E a \in Blocks \ DOMAIN mem :
        /\ memory' = Alloc(Free(mem, p), a, Body(mem[p].of, PackedLength(n), "zlib"))
        /\ post' = a /\ postLength' = PackedLength(n)
        /\ UNCHANGED <<headers, lost>>

\* compress2 succeeds: its output takes the place of the body p of n bytes.
Compressed(p, n, mem) ==
    \E a \in Blocks \ DOMAIN mem :
        /\ memory' = Alloc(Free(mem, p), a, Body(mem[p].of, PackedLength(n), "zlib"))
        /\ post' = a /\ postLength' = PackedLength(n)
        /\ AddHeader(Gzip)

\* OnCurlStarted with the options e and the post body b that the native left.
\* compress2 is told the size of its output by an uninitialised variable: either
\* it takes that for too small and fails (as when malloc fails), or what it
\* writes fits, since the block is large enough for any output.
OnCurlStarted(e, b) ==
    \/ /\ b.post = NULL
       /\ easy' = e /\ memory' = b.memory
       /\ UNCHANGED <<post, postLength, headers, lost>>
    \/ /\ b.post # NULL
       /\ \/ Compressed(b.post, b.length, b.memory)
          \/ /\ post' = b.post /\ postLength' = b.length /\ memory' = b.memory
             /\ UNCHANGED <<headers, lost>>
       /\ easy' = [e EXCEPT !.fieldsize = postLength',
                            !.postfields = [copied |-> FALSE, block |-> post', body |-> NoBody]]

\* What all natives that start a request do: the macro's test, AddCurlJob.
Started(native, n, e, b) ==
    /\ phase = "idle" /\ starts < MaxStarts
    /\ phase' = "queued"
    /\ OnCurlStarted(e, b)
    /\ starts' = starts + 1
    /\ asked' = [native |-> native, id |-> starts + 1, size |-> n]
    /\ sent' = Nothing /\ size' = 0
    /\ UNCHANGED <<buffer, curlcode, added, own>>

\* The post body of the context as it is.
OwnPost == [post |-> post, length |-> postLength, memory |-> memory]

\* CURLOPT_COPYPOSTFIELDS: curl copies as many bytes as CURLOPT_POSTFIELDSIZE says,
\* or a string of length str if that is not set.
CopyPostFields(e, str) ==
    [e EXCEPT !.post = TRUE,
              !.postfields = [copied |-> TRUE, block |-> NULL,
                  body |-> Body(starts + 1, IF e.fieldsize = -1 THEN str ELSE e.fieldsize,
                                "plain")]]

CurlGet == Started("CurlGet", 0, easy, OwnPost)

CurlStart == Started("CurlStart", 0, easy, OwnPost)

CurlPost(n) == Started("CurlPost", n, CopyPostFields(easy, n), OwnPost)

\* Mutant: the size is set after the copy was made.
CurlPostRaw_SizeLast(n, str) ==
    Started("CurlPostRaw", n,
            [CopyPostFields([easy EXCEPT !.timeout = Default], str)
                EXCEPT !.fieldsize = n], OwnPost)

\* The n bytes may hold a zero, at str.
CurlPostRaw(n, str) ==
    Started("CurlPostRaw", n,
            CopyPostFields([easy EXCEPT !.timeout = Default, !.fieldsize = n], str),
            OwnPost)

CurlPostRawCompress(n) ==
    \E a \in Blocks \ DOMAIN memory :
        Started("CurlPostRawCompress", n,
                [easy EXCEPT !.timeout = Default, !.post = TRUE],
                [post |-> a, length |-> n,
                 memory |-> Alloc(memory, a, Body(starts + 1, n, "plain"))])

(***************************************************************************)
(* The request under way.                                                  *)
(***************************************************************************)
\* curl is given the head of the header list.
ProcessCurlJob ==
    /\ phase = "queued"
    /\ phase' = "running"
    /\ easy' = [easy EXCEPT !.httpheader = @ \/ headers # << >>]
    /\ UNCHANGED <<contextVars, memory, wishVars, sent, size>>

\* The bytes at curl's post fields.
PostFields ==
    LET fields == easy.postfields
    IN IF fields.copied THEN fields.body
       ELSE IF fields.block \in DOMAIN memory THEN memory[fields.block]
       ELSE IF fields.block = NULL THEN Stdin ELSE Freed

\* The n bytes from the start of a body; a larger n reads on behind it.
FirstBytes(body, n) ==
    [body EXCEPT !.size = n,
                 !.format = IF @ \in {"plain", "zlib"} /\ n > body.size THEN "overread" ELSE @]

\* What curl sends: as many bytes as it was told, be they the body or not.
WireBody ==
    IF ~easy.post THEN NoBody
    ELSE IF easy.fieldsize = -1 THEN PostFields
    ELSE FirstBytes(PostFields, easy.fieldsize)

SendRequest ==
    /\ phase = "running" /\ sent = Nothing
    /\ sent' = [method |-> IF easy.post THEN "POST" ELSE "GET", body |-> WireBody,
                headers |-> IF easy.httpheader THEN headers ELSE << >>]
    /\ UNCHANGED <<phase, contextVars, easy, memory, wishVars, size>>

CurlReceiveData ==
    /\ phase = "running" /\ sent # Nothing /\ Len(buffer) < MaxPieces
    /\ buffer' = Append(buffer, starts)
    /\ UNCHANGED <<phase, post, postLength, headers, curlcode, easy,
                   memory, wishVars, sent, size>>

\* Mutant: the body is freed, but not forgotten.
OnCurlCompleted_NoReset ==
    /\ memory' = IF post # NULL THEN Free(memory, post) ELSE memory
    /\ UNCHANGED post

OnCurlCompleted ==
    /\ memory' = IF post # NULL THEN Free(memory, post) ELSE memory
    /\ post' = NULL

\* The transfer ends well, or fails (28 is CURLE_OPERATION_TIMEDOUT) at any time.
CheckCompletedCurlJobs(code) ==
    /\ phase = "running" /\ (code = 0 => sent # Nothing)
    /\ phase' = "done" /\ curlcode' = code
    /\ OnCurlCompleted
    /\ UNCHANGED <<postLength, headers, buffer, easy, wishVars, sent,
                   size>>

\* The callback gets the size, or the context is deleted (closed in the meantime,
\* plugin gone).
OnCurlCompletedGameThread ==
    /\ phase = "done"
    /\ \/ phase' = "idle" /\ size' = IF curlcode = 0 THEN Len(buffer) ELSE 0
       \/ phase' = "none" /\ UNCHANGED size
    /\ UNCHANGED <<contextVars, easy, memory, wishVars, sent>>

Close ==
    /\ phase = "idle" /\ phase' = "none"
    /\ UNCHANGED <<contextVars, easy, memory, wishVars, sent, size>>

\* HandleManager::CleanHandles at the unload of the extension, wherever the request
\* is: the destructor frees the easy handle and the header list, but no post body.
CleanHandles ==
    /\ phase # "unloaded" /\ phase' = "unloaded"
    /\ UNCHANGED <<contextVars, easy, memory, wishVars, sent, size>>

Unloaded == phase = "unloaded" /\ UNCHANGED ehVars

EHNext ==
    \/ CurlNew \/ Close \/ CleanHandles \/ Unloaded
    \/ \E line \in HeaderLines : CurlAddHeader(line)
    \/ \E setting \in IntSettings : CurlSetInt(setting[1], setting[2])
    \/ CurlGet \/ CurlStart
    \/ \E n \in 0..MaxSize :
          CurlPost(n) \/ CurlPostRawCompress(n) \/ \E str \in 0..n : CurlPostRaw(n, str)
    \/ ProcessCurlJob \/ SendRequest \/ CurlReceiveData
    \/ \E code \in {0, 28} : CheckCompletedCurlJobs(code)
    \/ OnCurlCompletedGameThread

EHSpec == EHInit /\ [][EHNext]_ehVars

(***************************************************************************)
(* Properties.                                                             *)
(***************************************************************************)
NativeNames == {"none", "CurlGet", "CurlStart", "CurlPost", "CurlPostRaw",
                "CurlPostRawCompress"}
Formats == {"none", "freed", "stdin", "plain", "zlib", "overread"}
Bodies == [of : Nat, size : Nat, format : Formats]
Fields == [copied : BOOLEAN, block : Blocks \cup {NULL}, body : Bodies]
Lines == HeaderLines \cup {Gzip}

\* The type of every variable of EasyHandle.
EHTypeOK ==
    /\ phase \in {"none", "idle", "queued", "running", "done", "unloaded"}
    /\ post \in Blocks \cup {NULL} /\ postLength \in Nat /\ headers \in Seq(Lines)
    /\ buffer \in Seq(Nat) /\ curlcode \in {-1, 0, 28}
    /\ easy \in [post : BOOLEAN, fieldsize : Nat \cup {-1}, postfields : Fields,
                 httpheader : BOOLEAN, timeout : Nat]
    /\ DOMAIN memory \subseteq Blocks /\ memory \in [DOMAIN memory -> Bodies]
    /\ starts \in Nat /\ asked \in [native : NativeNames, id : Nat, size : Nat]
    /\ added \subseteq HeaderLines /\ own \in [timeout : Nat, body : BOOLEAN]
    /\ sent \in [method : {"none", "GET", "POST"}, body : Bodies, headers : Seq(Lines)]
    /\ lost \in BOOLEAN /\ size \in Nat

\* The post body that context->post points to is the only one allocated, and it
\* is freed, once, by the time the request is delivered, whether compression worked
\* or not and however the transfer ended.  So the only body that is ever lost is
\* that of a request which the unload of the extension finds queued or in curl: the
\* destructor does not free it.
PostBlocksAccounted ==
    /\ DOMAIN memory = {post} \ {NULL}
    /\ post # NULL => phase \in {"queued", "running", "unloaded"}

Labelled == Gzip \in Range(sent.headers)

Whole(body, id, n) ==
    /\ body.of = id
    /\ \/ body.format = "plain" /\ body.size = n
       \/ body.format = "zlib" /\ body.size = PackedLength(n)

\* CurlPostRaw and CurlPostRawCompress send all of the body they were given and
\* nothing else, whatever requests the handle was used for before, and although
\* the size compress2 is given is not initialised.
RawPostsArriveWhole ==
    sent # Nothing /\ asked.native \in {"CurlPostRaw", "CurlPostRawCompress"} =>
        sent.method = "POST" /\ Whole(sent.body, asked.id, asked.size)

\* While there is memory for the header list, a compressed body says that it is
\* compressed and every header a plugin added is sent, on every use of a handle.
HeadersArrive ==
    phase = "running" /\ sent # Nothing /\ ~lost =>
        /\ sent.body.format = "zlib" => Labelled
        /\ added \subseteq Range(sent.headers)

AsAsked ==
    sent # Nothing =>
        /\ asked.native = "CurlGet" => sent.method = "GET" /\ sent.body = NoBody
        /\ asked.native \in {"CurlPost", "CurlPostRaw", "CurlPostRawCompress"} =>
              sent.method = "POST" /\ Whole(sent.body, asked.id, asked.size)
        /\ Labelled => sent.body.format = "zlib"

\* The first request on a handle is the one that was asked for, if the plugin leaves
\* CURLOPT_POST and CURLOPT_POSTFIELDSIZE to the natives.
FirstRequestIsAsAsked == starts = 1 /\ ~own.body => AsAsked

(***************************************************************************)
(* What the documentation says and the code does not do.  TLC refutes each *)
(* of these as an INVARIANT of MCEasy_reuse.cfg.                           *)
(***************************************************************************)
\* async.inc: operations fail "until the callback fires", so a handle may be used
\* again, and then too the request is the one that was asked for.
RequestIsAsAsked == ~own.body => AsAsked

\* The same for memory: what curl sends has not been freed.
SentBodyIsAlive == sent.body.format = "freed" => sent.body.size = 0

\* async.inc: "compress post with gzip": a body that is labelled gzip is gzip.
LabelIsTheFormat == Labelled => sent.body.format = "gzip"

\* test-async.sp: size is the "response size": that of this response.
SizeIsThisResponse ==
    phase = "idle" /\ curlcode = 0 =>
        size = Len(SelectSeq(buffer, LAMBDA id : id = starts))

\* async.inc: Async_CurlSetInt sets an option of the request: a timeout a plugin
\* set is the one the request runs with.
TimeoutIsTheOneSet == phase = "running" => easy.timeout = own.timeout
=============================================================================
