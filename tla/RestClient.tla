----------------------------- MODULE RestClient -----------------------------
(***************************************************************************)
(* MarcRestClient (src/src/marc_rest_client.cpp): clients with one curl    *)
(* handle each.  An operation is a sequence of requests.  For each of them *)
(* it adds its own options to the handle, performAction or performGet add  *)
(* the general ones, and a ScopeGuard resets the handle on every way out.  *)
(*                                                                         *)
(* A request may fail, with or without having taken effect, and an answer  *)
(* that is not JSON ends the process: doWithRetry and main catch nothing   *)
(* of the kind.  What the cloud stores is kept for one path, the one the   *)
(* operations are about.                                                   *)
(***************************************************************************)
EXTENDS Compound

CONSTANTS Clients,    \* MarcRestClient objects
          Bodies,     \* the storages that may be uploaded, sequences of bytes
          HashBytes,  \* the bytes a hash stands for: 20
          IntBytes    \* sizeof(uint32_t)

ASSUME RestClientAssumption ==
    /\ HashBytes \in Nat /\ IntBytes \in Nat \ {0}
    /\ HashBytes < MaxFileSize
    /\ \A s \in Bodies : s \in Seq(0..255)

VARIABLES fields,   \* members of each client: configuration and session
          options,  \* the options set on its curl handle
          op,       \* the operation it is in
          stored,   \* content of the path in the cloud
          running   \* the process has not ended

clientVars == <<fields, options, op, stored, running>>

-----------------------------------------------------------------------------
(* Requests. *)

Json == {"dispatcher", "space", "publish", "folder"}
Posts == {"add", "move", "remove", "rename", "publish", "mkdir"}
Logins == {"main", "auth", "cloud"}
Kinds == Json \cup Posts \cup Logins \cup {"put", "get"}

(***************************************************************************)
(* The options an operation sets for a request, by name and value.         *)
(***************************************************************************)
Own(kind) ==
    {<<"URL", kind>>}
    \cup (IF kind \in Posts THEN {<<"POSTFIELDS", kind>>} ELSE {})
    \cup (IF kind = "auth" THEN {<<"HTTPPOST", kind>>} ELSE {})
    \cup (IF kind = "put" THEN {<<"UPLOAD", kind>>, <<"READDATA", kind>>} ELSE {})

(***************************************************************************)
(* The options performAction and performGet add.  Their fixed values are   *)
(* one option here; 0 is an option that is not configured.  authenticate   *)
(* forces headers of its own, without the token.                           *)
(***************************************************************************)
If(name, value) == IF value = 0 THEN {} ELSE {<<name, value>>}
PerformAction(f, kind) ==
    {<<"FIXED", kind>>, <<"WRITEDATA", kind>>}
    \cup If("PROXY", f.proxyUrl)
    \cup If("MAX_SEND_SPEED", f.maxUploadRate)
    \cup (IF kind = "auth" THEN {} ELSE If("X-CSRF-Token", f.csrfToken))
PerformGet(f) ==
    {<<"FIXED", "get">>, <<"WRITEDATA", "get">>}
    \cup If("PROXY", f.proxyUrl)
    \cup If("MAX_RECV_SPEED", f.maxDownloadRate)
General(f, kind) == IF kind = "get" THEN PerformGet(f) ELSE PerformAction(f, kind)

(* Adding an option replaces the value it had. *)
Add(old, new) == {o \in old : \A n \in new : n[1] # o[1]} \cup new

-----------------------------------------------------------------------------
(* Contents. *)

(***************************************************************************)
(* toPadded40Hex: every char is converted to uint32_t and printed in hex.  *)
(* char is signed, so a byte above 127 takes IntBytes bytes, itself behind *)
(* as many 255 as the sign fills.  The k-th ends at HexEnd(s, k).  The     *)
(* hash is filled up with zeros; one that is too long only gets longer.    *)
(***************************************************************************)
HexEnd(s, k) == k + (IntBytes - 1) * Cardinality({j \in 1..k : s[j] > 127})
HexByte(s, i) ==
    IF i > HexEnd(s, Len(s)) THEN 0
    ELSE IF \E k \in DOMAIN s : HexEnd(s, k) = i
    THEN s[CHOOSE k \in DOMAIN s : HexEnd(s, k) = i]
    ELSE 255
HexLength(s) ==
    IF HexEnd(s, Len(s)) > HashBytes THEN HexEnd(s, Len(s)) ELSE HashBytes
ToPaddedHex(s) == [i \in 1..HexLength(s) |-> HexByte(s, i)]

(***************************************************************************)
(* The part of body that upload sends for the idx-th name of a file.       *)
(***************************************************************************)
PartTooLong(body, idx) ==  \* faulty variant: one byte of the next part too
    LET start == idx * MaxFileSize
        end == start + MaxFileSize + 1
    IN  IF IsCompound(Len(body))
        THEN SubSeq(body, start + 1, IF Len(body) < end THEN Len(body) ELSE end)
        ELSE body
Part(body, idx) ==
    LET start == idx * MaxFileSize
        end == start + MaxFileSize
    IN  IF IsCompound(Len(body))
        THEN SubSeq(body, start + 1, IF Len(body) < end THEN Len(body) ELSE end)
        ELSE body

(* An upload with a hash of its own making, or through a shard. *)
Small(body) == Len(body) <= HashBytes

(***************************************************************************)
(* What the cloud takes the content for when a file is added: the first    *)
(* bytes of the hash if it is small, else what was put under that hash.    *)
(***************************************************************************)
Added(o) == IF o.small THEN SubSeq(ToPaddedHex(o.data), 1, Len(o.data))
            ELSE o.data
Acceptable(o) == o.small => Len(ToPaddedHex(o.data)) = HashBytes

-----------------------------------------------------------------------------
(* Operations. *)

NoOp(result) == [name |-> "none", todo |-> <<>>, data |-> <<>>,
                 small |-> FALSE, result |-> result]
Operation(name, kinds) ==
    [name |-> name, todo |-> kinds, data |-> <<>>, small |-> TRUE,
     result |-> "none"]

(* Faulty variant: what was put on a shard is not added as a file. *)
UploadWithoutAdd(body, idx) ==
    [name |-> "upload",
     todo |-> IF Small(body) THEN <<"add">> ELSE <<"dispatcher", "put">>,
     data |-> Part(body, idx), small |-> Small(body), result |-> "none"]

(***************************************************************************)
(* upload: an empty body is created, a small one is its own hash, any      *)
(* other is put on a shard first.                                          *)
(***************************************************************************)
Upload(body, idx) ==
    [name |-> "upload",
     todo |-> IF Small(body) THEN <<"add">> ELSE <<"dispatcher", "put", "add">>,
     data |-> Part(body, idx), small |-> Small(body), result |-> "none"]

Login == Operation("login", <<"main", "auth", "cloud">>)
Create == Operation("create", <<"add">>)
Download == Operation("download", <<"dispatcher", "get">>)
RenameWithin == Operation("rename", <<"rename">>)
RenameAcross == Operation("rename", <<"rename", "move">>)
RemovePath == Operation("remove", <<"remove">>)
Mkdir == Operation("mkdir", <<"mkdir">>)
Ls == Operation("ls", <<"folder">>)
Df == Operation("df", <<"space">>)
Share == Operation("share", <<"publish">>)
Operations ==
    {Create, Download, RenameWithin, RenameAcross, RemovePath, Mkdir, Ls, Df, Share}
    \cup UNION {{Upload(s, i) : i \in 0..(Count(Len(s)) - 1)} : s \in Bodies}

Results == {"none", "ok", "server", "refused"}
OptionSets ==
    SUBSET ({"URL", "POSTFIELDS", "HTTPPOST", "UPLOAD", "READDATA", "FIXED",
             "WRITEDATA"} \X Kinds
            \cup {"PROXY", "MAX_RECV_SPEED", "MAX_SEND_SPEED", "X-CSRF-Token"}
                 \X Int)
Left(o, k) == [o EXCEPT !.todo = SubSeq(@, k, Len(@))]
OpStates ==
    {NoOp(r) : r \in Results}
    \cup UNION {{Left(o, k) : k \in DOMAIN o.todo} : o \in Operations \cup {Login}}
Fields == [proxyUrl : Int, maxUploadRate : Int, maxDownloadRate : Int,
           actToken : {0, 1}, csrfToken : {0, 1}, cookies : SUBSET Logins]

ClientTypeOK ==
    /\ fields \in [Clients -> Fields]
    /\ options \in [Clients -> OptionSets]
    /\ op \in [Clients -> OpStates]
    /\ stored \in Seq(0..255) \cup {NoEntry}
    /\ running \in BOOLEAN

NewClient == [proxyUrl |-> 0, maxUploadRate |-> 0, maxDownloadRate |-> 0,
              actToken |-> 0, csrfToken |-> 0, cookies |-> {}]

ClientInit ==
    /\ fields = [c \in Clients |-> NewClient]
    /\ options = [c \in Clients |-> {}]
    /\ op = [c \in Clients |-> NoOp("none")]
    /\ stored = NoEntry
    /\ running = TRUE

Idle(c) == op[c].todo = <<>>
Request(c) == Head(op[c].todo)

-----------------------------------------------------------------------------
(* Faulty variant: a handle that keeps its options. *)
KeepOptions(c) == options

-----------------------------------------------------------------------------
(***************************************************************************)
(* The handle as it goes to perform, and after the ScopeGuard.             *)
(***************************************************************************)
Prepared(c, opts, f, kind) == [options EXCEPT
    ![c] = Add(Add(opts, Own(kind)), General(f, kind))]
Reset(c) == [options EXCEPT ![c] = {}]

(* The first request of an operation. *)
Start(c, o) ==
    /\ running /\ Idle(c)
    /\ op' = [op EXCEPT ![c] = o]
    /\ options' = Prepared(c, options[c], fields[c], Head(o.todo))
    /\ UNCHANGED <<fields, stored, running>>

(***************************************************************************)
(* What the cloud does to the path when it carries the request out.        *)
(***************************************************************************)
Effect(o) ==
    IF Head(o.todo) = "add" /\ Acceptable(o) THEN Added(o)
    ELSE IF Head(o.todo) \in {"remove", "rename"} THEN NoEntry
    ELSE stored

(***************************************************************************)
(* A login request must bring cookies that were not there before, the      *)
(* first and the last one a token as well.                                 *)
(***************************************************************************)
OpenMainPage(f) == [f EXCEPT !.cookies = @ \cup {"main"}, !.actToken = 1]
Authenticate(f) == [f EXCEPT !.cookies = @ \cup {"auth"}]
OpenCloudPage(f) == [f EXCEPT !.cookies = @ \cup {"cloud"}, !.csrfToken = 1]
Session(f, kind) ==
    IF kind = "main" THEN OpenMainPage(f)
    ELSE IF kind = "auth" THEN Authenticate(f)
    ELSE IF kind = "cloud" THEN OpenCloudPage(f)
    ELSE f

(***************************************************************************)
(* A good answer: the handle is reset, and the next request is made or the *)
(* operation ends.                                                         *)
(***************************************************************************)
Answered(c) ==
    LET rest == Tail(op[c].todo)
        f == Session(fields[c], Request(c))
    IN  /\ running /\ ~Idle(c)
        /\ Request(c) = "add" => Acceptable(op[c])
        /\ stored' = Effect(op[c])
        /\ fields' = [fields EXCEPT ![c] = f]
        /\ \/ /\ rest # <<>>
              /\ op' = [op EXCEPT ![c].todo = rest]
              /\ options' = Prepared(c, {}, f, Head(rest))
           \/ /\ rest = <<>>
              /\ op' = [op EXCEPT ![c] = NoOp("ok")]
              /\ options' = Reset(c)
        /\ UNCHANGED running

(* Faulty variant: a login that fails is begun again. *)
LogInAgain(c) ==
    /\ running /\ ~Idle(c)
    /\ stored' \in {stored, Effect(op[c])}
    /\ \E r \in {"server", "refused"} :
          op' = [op EXCEPT ![c] = IF op[c].name = "login" THEN Login ELSE NoOp(r)]
    /\ options' = IF op[c].name = "login" THEN Prepared(c, {}, fields[c], "main")
                  ELSE Reset(c)
    /\ UNCHANGED <<fields, running>>

(***************************************************************************)
(* A MailApiException: the transfer fails, the status is not a success, or *)
(* the answer lacks what it should have.  Nobody catches it in a login.    *)
(***************************************************************************)
Failed(c) ==
    /\ running /\ ~Idle(c)
    /\ stored' \in {stored, Effect(op[c])}
    /\ \E r \in {"server", "refused"} : op' = [op EXCEPT ![c] = NoOp(r)]
    /\ options' = Reset(c)
    /\ running' = (op[c].name # "login")
    /\ UNCHANGED fields

(***************************************************************************)
(* The answer is no JSON at all: the parser's exception ends the process.  *)
(***************************************************************************)
Garbled(c) ==
    /\ running /\ ~Idle(c)
    /\ Request(c) \in Json
    /\ running' = FALSE
    /\ op' = [op EXCEPT ![c] = NoOp("none")]
    /\ UNCHANGED <<fields, options, stored>>

(***************************************************************************)
(* The cloud still carries out a request of a process that has ended.      *)
(***************************************************************************)
LateEffect(c) ==
    /\ ~running /\ ~Idle(c)
    /\ stored' = Effect(op[c])
    /\ op' = [op EXCEPT ![c] = NoOp("none")]
    /\ UNCHANGED <<fields, options, running>>

Respond(c) == Answered(c) \/ Failed(c) \/ Garbled(c)

-----------------------------------------------------------------------------
(***************************************************************************)
(* The copy constructor: the handle is duplicated with the options it has, *)
(* and configuration, tokens and cookies are copied.                       *)
(***************************************************************************)
CopyOf(f) == [proxyUrl |-> f.proxyUrl, maxUploadRate |-> f.maxUploadRate,
              maxDownloadRate |-> f.maxDownloadRate, actToken |-> f.actToken,
              csrfToken |-> f.csrfToken, cookies |-> f.cookies]
CopyClient(seed, copies) ==
    /\ fields' = [c \in Clients |->
                     IF c \in copies THEN CopyOf(fields[seed]) ELSE fields[c]]
    /\ options' = [c \in Clients |->
                     IF c \in copies THEN options[seed] ELSE options[c]]
    /\ UNCHANGED <<op, stored, running>>

-----------------------------------------------------------------------------
(***************************************************************************)
(* The file is absent, empty, or holds a whole slice of a body: never some *)
(* of its bytes, whatever request failed or was cut off by a crash.        *)
(***************************************************************************)
StoredIsWhole ==
    \/ stored \in {NoEntry, <<>>}
    \/ \E s \in Bodies : \E x \in DOMAIN StoredAs(s) : stored = StoredAs(s)[x]

(***************************************************************************)
(* An upload that succeeds has stored the bytes it was given.              *)
(***************************************************************************)
UploadStoresBody ==
    [][\A c \in Clients :
          op[c].name = "upload" /\ op'[c] = NoOp("ok")
              => stored' = op[c].data]_clientVars
=============================================================================
