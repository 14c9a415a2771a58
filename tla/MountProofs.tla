---------------------------- MODULE MountProofs -----------------------------
(***************************************************************************)
(* Proofs about the mounted program, for every set of clients, bodies and  *)
(* settings: the types, that every request goes out with its own options,  *)
(* the text of link files and, for bodies without negative chars, what     *)
(* uploads leave in the cloud.                                             *)
(***************************************************************************)
EXTENDS Mount, RestClientProofs

-----------------------------------------------------------------------------
(* The configuration, from the settings to the clients of the pool. *)

ConfIsMerged == phase # "start" => \A k \in Keys : conf[k] = Merged(k)

UserFields(f) ==
    /\ f.proxyUrl = Proxy(Merged("proxyurl"))
    /\ f.maxDownloadRate = Merged("max-download-rate") * 1024
    /\ f.maxUploadRate = Merged("max-upload-rate") * 1024
SessionOpen(f) == f.csrfToken = 1 /\ f.cookies = Logins

FirstIsSet ==
    phase \in {"ready", "login", "populated", "mounted"} => UserFields(fields[First])
PoolIsSet ==
    phase \in {"populated", "mounted"} =>
        \A c \in Pool : UserFields(fields[c]) /\ SessionOpen(fields[c])

(***************************************************************************)
(* The login goes through its three requests in order, and each leaves its *)
(* cookies; the token comes with the last one.                             *)
(***************************************************************************)
LoginStands ==
    LET f == fields[First]
        todo == op[First].todo
    IN  /\ running /\ phase \in {"start", "configured", "ready"} => f.csrfToken = 0
        /\ running /\ phase = "login" =>
              \/ todo = <<>> /\ SessionOpen(f)
              \/ /\ f.csrfToken = 0
                 /\ \/ todo = <<"main", "auth", "cloud">>
                    \/ todo = <<"auth", "cloud">> /\ "main" \in f.cookies
                    \/ todo = <<"cloud">> /\ {"main", "auth"} \subseteq f.cookies

(* Only the first client logs in, and only the pool's work is for FUSE. *)
Worker(c) ==
    ~Idle(c) => \/ c = First /\ phase = "login" /\ op[c].name = "login"
                \/ c \in Pool /\ phase = "mounted" /\ op[c].name # "login"
WorkersFit == running => \A c \in Clients : Worker(c)

MainInv ==
    /\ settings \in Settings /\ conf \in [Keys -> Int]
    /\ phase \in {"start", "configured", "ready", "login", "populated", "mounted"}
    /\ ConfIsMerged /\ FirstIsSet /\ PoolIsSet /\ LoginStands /\ WorkersFit

-----------------------------------------------------------------------------
(* The text of a link file. *)

(* From this place on, text names the first n parts of a file. *)
Tells(text, before, size, n) ==
    \A i \in 0..(n - 1) :
        /\ text[before + 2 * i + 1] = <<"path", NameAt(size, i)>>
        /\ text[before + 2 * i + 2] = <<"url", NameAt(size, i)>>

AddressesFollow(text) ==
    \A i \in DOMAIN text :
        text[i][1] = "url" => i > 1 /\ text[i - 1] = <<"path", text[i][2]>>

LinkProgress ==
    /\ AddressesFollow(link.text)
    /\ link.pc \in {"acquire", "share"} => link.left >= 1 /\ ~link.whole
    /\ link.pc = "share" =>
          LET before == Len(link.text) - (2 * link.idx + 1)
          IN  /\ link.client \in Pool /\ before >= 0
              /\ Tells(link.text, before, link.size, link.idx)
              /\ link.text[Len(link.text)] = <<"path", NameAt(link.size, link.idx)>>
    /\ link.pc = "write" /\ link.whole =>
          LET before == Len(link.text) - 2 * Count(link.size)
          IN  before >= 0 /\ Tells(link.text, before, link.size, Count(link.size))

MountInv == ClientTypeOK /\ HandlesFit /\ MainInv /\ LinkTypeOK /\ LinkProgress

Pieces == {"path", "url"} \X Names

LEMMA SizesType == Sizes \subseteq Nat
<1>1. \A s \in Bodies : Len(s) \in Nat
  BY RestClientAssumption, LenProperties
<1> QED
  BY <1>1 DEF Sizes

LEMMA AppendPath ==
    ASSUME NEW text \in Seq(Pieces), AddressesFollow(text), NEW x \in Names
    PROVE  AddressesFollow(Append(text, <<"path", x>>))
<1> DEFINE e == <<"path", x>>
           new == Append(text, e)
<1>1. e \in Pieces /\ e[1] # "url"
  BY DEF Pieces
<1> HIDE DEF e
<1>2. /\ new \in Seq(Pieces) /\ Len(new) = Len(text) + 1 /\ Len(text) \in Nat
      /\ \A i \in 1..Len(text) : new[i] = text[i]
      /\ new[Len(text) + 1] = e
      /\ DOMAIN new = 1..Len(new) /\ DOMAIN text = 1..Len(text)
  BY <1>1, AppendProperties, LenProperties
<1> HIDE DEF new
<1>3. ASSUME NEW i \in DOMAIN new, new[i][1] = "url"
      PROVE  i > 1 /\ new[i - 1] = <<"path", new[i][2]>>
  <2>1. i \in 1..Len(text)
    BY <1>1, <1>2, <1>3
  <2>2. new[i] = text[i] /\ i > 1 /\ text[i - 1] = <<"path", text[i][2]>>
    BY <1>2, <1>3, <2>1 DEF AddressesFollow
  <2>3. i - 1 \in 1..Len(text)
    BY <1>2, <2>1, <2>2
  <2> QED
    BY <1>2, <2>2, <2>3
<1> QED
  BY <1>3 DEF AddressesFollow, new, e

LEMMA AppendAddress ==
    ASSUME NEW text \in Seq(Pieces), AddressesFollow(text), NEW x \in Names,
           Len(text) >= 1, text[Len(text)] = <<"path", x>>
    PROVE  AddressesFollow(Append(text, <<"url", x>>))
<1> DEFINE e == <<"url", x>>
           new == Append(text, e)
<1>1. e \in Pieces /\ e[2] = x
  BY DEF Pieces
<1> HIDE DEF e
<1>2. /\ new \in Seq(Pieces) /\ Len(new) = Len(text) + 1 /\ Len(text) \in Nat
      /\ \A i \in 1..Len(text) : new[i] = text[i]
      /\ new[Len(text) + 1] = e
      /\ DOMAIN new = 1..Len(new) /\ DOMAIN text = 1..Len(text)
  BY <1>1, AppendProperties, LenProperties
<1> HIDE DEF new
<1>3. ASSUME NEW i \in DOMAIN new, new[i][1] = "url"
      PROVE  i > 1 /\ new[i - 1] = <<"path", new[i][2]>>
  <2>1. CASE i \in 1..Len(text)
    <3>1. new[i] = text[i] /\ i > 1 /\ text[i - 1] = <<"path", text[i][2]>>
      BY <1>2, <1>3, <2>1 DEF AddressesFollow
    <3>2. i - 1 \in 1..Len(text)
      BY <1>2, <2>1, <3>1
    <3> QED
      BY <1>2, <3>1, <3>2
  <2>2. CASE i = Len(text) + 1
    <3>1. i - 1 = Len(text) /\ Len(text) \in 1..Len(text) /\ i > 1
      BY <1>2, <2>2
    <3>2. new[i - 1] = <<"path", x>> /\ new[i][2] = x
      BY <1>1, <1>2, <2>2, <3>1
    <3> QED
      BY <3>1, <3>2
  <2> QED
    BY <1>2, <2>1, <2>2
<1> QED
  BY <1>3 DEF AddressesFollow, new, e

LEMMA TellsStill ==
    ASSUME NEW text \in Seq(Pieces), NEW e \in Pieces, NEW before \in Nat, NEW n \in Nat,
           NEW size, before + 2 * n <= Len(text), Tells(text, before, size, n)
    PROVE  Tells(Append(text, e), before, size, n)
<1> DEFINE new == Append(text, e)
<1>1. /\ Len(text) \in Nat /\ \A i \in 1..Len(text) : new[i] = text[i]
  BY AppendProperties, LenProperties
<1> HIDE DEF new
<1>2. ASSUME NEW i \in 0..(n - 1)
      PROVE  /\ new[before + 2 * i + 1] = <<"path", NameAt(size, i)>>
             /\ new[before + 2 * i + 2] = <<"url", NameAt(size, i)>>
  <2>1. before + 2 * i + 1 \in 1..Len(text) /\ before + 2 * i + 2 \in 1..Len(text)
    BY <1>1
  <2> QED
    BY <1>1, <2>1 DEF Tells
<1> QED
  BY <1>2 DEF Tells, new

LEMMA TellsNext ==
    ASSUME NEW text, NEW before \in Nat, NEW n \in Nat, NEW size,
           Tells(text, before, size, n),
           text[before + 2 * n + 1] = <<"path", NameAt(size, n)>>,
           text[before + 2 * n + 2] = <<"url", NameAt(size, n)>>
    PROVE  Tells(text, before, size, n + 1)
<1>1. ASSUME NEW i \in 0..((n + 1) - 1)
      PROVE  /\ text[before + 2 * i + 1] = <<"path", NameAt(size, i)>>
             /\ text[before + 2 * i + 2] = <<"url", NameAt(size, i)>>
  <2>1. CASE i = n
    BY <2>1
  <2>2. CASE i # n
    <3>1. i \in 0..(n - 1)
      BY <2>2
    <3> QED
      BY <3>1 DEF Tells
  <2> QED
    BY <2>1, <2>2
<1> QED
  BY <1>1 DEF Tells

(***************************************************************************)
(* What share has told of the part at hand completes its line.             *)
(***************************************************************************)
LEMMA AddressCompletes ==
    ASSUME LinkTypeOK, LinkProgress, link.pc = "share",
           NEW new, new = Append(link.text, Piece("url", link.idx))
    PROVE  /\ new \in Seq(Pieces) /\ AddressesFollow(new) /\ Len(new) \in Nat
           /\ Len(new) - 2 * (link.idx + 1) >= 0
           /\ Tells(new, Len(new) - 2 * (link.idx + 1), link.size, link.idx + 1)
<1> DEFINE text == link.text
           n == link.idx
           x == NameAt(link.size, n)
           before == Len(text) - (2 * n + 1)
<1>1. /\ text \in Seq(Pieces) /\ n \in Nat /\ link.size \in Nat /\ Len(text) \in Nat
  BY SizesType, LenProperties DEF LinkTypeOK, Pieces
<1>2. x \in Names
  BY <1>1, CountType
<1>3. /\ before >= 0 /\ Tells(text, before, link.size, n)
      /\ text[Len(text)] = <<"path", x>> /\ AddressesFollow(text)
  BY DEF LinkProgress
<1>4. new = Append(text, <<"url", x>>) /\ <<"url", x>> \in Pieces
  BY <1>2 DEF Piece, Pieces
<1> HIDE DEF text, n, x
<1>5. before \in Nat /\ before + 2 * n <= Len(text) /\ Len(text) >= 1
  BY <1>1, <1>3
<1>6. /\ new \in Seq(Pieces) /\ Len(new) = Len(text) + 1
      /\ \A i \in 1..Len(text) : new[i] = text[i]
      /\ new[Len(text) + 1] = <<"url", x>>
  <2>1. \A e \in Pieces :
           /\ Append(text, e) \in Seq(Pieces) /\ Len(Append(text, e)) = Len(text) + 1
           /\ \A i \in 1..Len(text) : Append(text, e)[i] = text[i]
           /\ Append(text, e)[Len(text) + 1] = e
    BY <1>1, AppendProperties
  <2> QED
    BY <1>4, <2>1, Zenon
<1>7. AddressesFollow(new)
  BY <1>1, <1>2, <1>3, <1>4, <1>5, AppendAddress
<1>8. Len(new) - 2 * (n + 1) = before
  <2>1. \A a, b \in Nat : (a + 1) - 2 * (b + 1) = a - (2 * b + 1)
    OBVIOUS
  <2>2. (Len(text) + 1) - 2 * (n + 1) = before
    BY <1>1, <2>1
  <2> QED
    BY <1>6, <2>2, Zenon
<1>9. before + 2 * n + 1 = Len(text) /\ before + 2 * n + 2 = Len(text) + 1
  BY <1>1
<1> HIDE DEF before
<1>10. Tells(new, before, link.size, n)
  BY <1>1, <1>3, <1>4, <1>5, TellsStill
<1>11. Len(text) \in 1..Len(text)
  BY <1>1, <1>5
<1>12. /\ new[before + 2 * n + 1] = <<"path", NameAt(link.size, n)>>
       /\ new[before + 2 * n + 2] = <<"url", NameAt(link.size, n)>>
  BY <1>3, <1>6, <1>9, <1>11 DEF x
<1>13. Tells(new, before, link.size, n + 1)
  BY <1>1, <1>5, <1>10, <1>12, TellsNext
<1> QED
  BY <1>1, <1>5, <1>6, <1>7, <1>8, <1>13 DEF n

-----------------------------------------------------------------------------
(* The steps of a link file. *)

LinkInv == LinkTypeOK /\ LinkProgress

LEMMA LinkFields ==
    ASSUME LinkTypeOK
    PROVE  /\ link.pc \in {"idle", "acquire", "share", "write"} /\ link.size \in Sizes
           /\ link.idx \in Nat /\ link.left \in 0..Retries
           /\ link.client \in Pool \cup {NoClient} /\ link.text \in Seq(Pieces)
           /\ link.whole \in BOOLEAN /\ link.idx < Count(link.size)
           /\ link.size \in Nat /\ Len(link.text) \in Nat
BY SizesType, LenProperties DEF LinkTypeOK, Pieces

LEMMA NoLinkFits == link = NoLink => LinkInv
<1> SUFFICES ASSUME link = NoLink PROVE LinkInv
  OBVIOUS
<1>1. /\ link.pc = "idle" /\ link.size = 0 /\ link.idx = 0 /\ link.left = 0
      /\ link.client = NoClient /\ link.text = <<>> /\ link.whole = FALSE
  BY DEF NoLink
<1>2. 0 \in 0..Retries /\ 0 \in Sizes /\ <<>> \in Seq({"path", "url"} \X Names)
  BY LinkAssumption DEF Sizes
<1>3. LinkTypeOK
  <2>1. 0 < Count(0)
    BY CountType
  <2> QED
    BY <1>1, <1>2, <2>1 DEF LinkTypeOK, NoLink
<1>4. AddressesFollow(link.text)
  <2>1. DOMAIN <<>> = {}
    OBVIOUS
  <2> QED
    BY <1>1, <2>1 DEF AddressesFollow
<1> QED
  BY <1>1, <1>3, <1>4 DEF LinkInv, LinkProgress

LEMMA FlushLinkFits ==
    ASSUME LinkInv, NEW n \in Sizes, FlushLink(n) PROVE LinkInv'
<1>1. /\ link'.pc = "acquire" /\ link'.size = n /\ link'.idx = 0 /\ link'.left = Retries
      /\ link'.client = NoClient /\ link'.text = <<>> /\ link'.whole = FALSE
      /\ link' = [pc |-> "acquire", size |-> n, idx |-> 0, left |-> Retries,
                  client |-> NoClient, text |-> <<>>, whole |-> FALSE]
  BY DEF FlushLink, NoLink
<1>2. /\ Retries \in 0..Retries /\ Retries >= 1 /\ 0 < Count(n)
      /\ <<>> \in Seq({"path", "url"} \X Names)
  BY LinkAssumption, CountType, SizesType
<1>3. LinkTypeOK'
  BY <1>1, <1>2 DEF LinkTypeOK
<1>4. AddressesFollow(link'.text)
  <2>1. DOMAIN <<>> = {}
    OBVIOUS
  <2> QED
    BY <1>1, <2>1 DEF AddressesFollow
<1> QED
  BY <1>1, <1>2, <1>3, <1>4 DEF LinkInv, LinkProgress

(* The name at the front of a part's line. *)
LEMMA PathPiece ==
    ASSUME LinkTypeOK, NEW i \in Nat, NEW text \in Seq(Pieces), AddressesFollow(text)
    PROVE  LET new == Append(text, Piece("path", i))
           IN  /\ new \in Seq(Pieces) /\ AddressesFollow(new)
               /\ Len(new) = Len(text) + 1 /\ Len(text) \in Nat
               /\ new[Len(new)] = <<"path", NameAt(link.size, i)>>
               /\ <<"path", NameAt(link.size, i)>> \in Pieces
<1> DEFINE x == NameAt(link.size, i)
<1>1. x \in Names
  BY LinkFields, CountType
<1>2. Piece("path", i) = <<"path", x>> /\ <<"path", x>> \in Pieces
  BY <1>1 DEF Piece, Pieces
<1> HIDE DEF x
<1>3. AddressesFollow(Append(text, <<"path", x>>))
  BY <1>1, AppendPath
<1>4. \A e \in Pieces :
         /\ Append(text, e) \in Seq(Pieces) /\ Len(Append(text, e)) = Len(text) + 1
         /\ Append(text, e)[Len(text) + 1] = e
         /\ Len(text) \in Nat
  BY AppendProperties, LenProperties
<1> QED
  BY <1>2, <1>3, <1>4, Zenon DEF x

LEMMA BeginAttemptFits ==
    ASSUME LinkInv, NEW c \in Pool, BeginAttempt(c) PROVE LinkInv'
<1> DEFINE new == Append(link.text, Piece("path", 0))
<1>0. LinkTypeOK /\ LinkProgress /\ link.pc = "acquire"
  BY DEF LinkInv, BeginAttempt
<1>1. /\ new \in Seq(Pieces) /\ AddressesFollow(new)
      /\ Len(new) = Len(link.text) + 1 /\ Len(link.text) \in Nat
      /\ new[Len(new)] = <<"path", NameAt(link.size, 0)>>
  BY <1>0, LinkFields, PathPiece DEF LinkProgress
<1>2. link' = [link EXCEPT !.pc = "share", !.client = c, !.idx = 0, !.text = new]
  BY DEF BeginAttempt
<1> HIDE DEF new
<1>3. /\ link'.pc = "share" /\ link'.size = link.size /\ link'.idx = 0
      /\ link'.left = link.left /\ link'.client = c /\ link'.text = new
      /\ link'.whole = link.whole
  BY <1>0, <1>2 DEF LinkTypeOK
<1>4. 0 < Count(link.size)
  BY <1>0, LinkFields, CountType
<1>5. LinkTypeOK'
  BY <1>0, <1>1, <1>2, <1>4 DEF LinkTypeOK, Pieces
<1>6. Len(new) - (2 * 0 + 1) >= 0 /\ Tells(new, Len(new) - (2 * 0 + 1), link.size, 0)
  BY <1>1 DEF Tells
<1>7. link.left >= 1 /\ ~link.whole
  BY <1>0 DEF LinkProgress
<1> QED
  BY <1>1, <1>3, <1>5, <1>6, <1>7 DEF LinkInv, LinkProgress

LEMMA SharedFits ==
    ASSUME LinkInv, Shared PROVE LinkInv'
<1> DEFINE text == Append(link.text, Piece("url", link.idx))
           next == link.idx + 1
           new == Append(text, Piece("path", next))
<1>0. LinkTypeOK /\ LinkProgress /\ link.pc = "share"
  BY DEF LinkInv, Shared
<1>1. /\ text \in Seq(Pieces) /\ AddressesFollow(text) /\ Len(text) \in Nat
      /\ Len(text) - 2 * next >= 0 /\ Tells(text, Len(text) - 2 * next, link.size, next)
  BY <1>0, AddressCompletes
<1>2. next \in Nat /\ link.left >= 1 /\ ~link.whole /\ link.client \in Pool
  BY <1>0, LinkFields DEF LinkProgress
<1>3. CASE /\ next < Count(link.size)
           /\ link' = [link EXCEPT !.idx = next, !.text = new]
  <2>1. /\ new \in Seq(Pieces) /\ AddressesFollow(new)
        /\ Len(new) = Len(text) + 1
        /\ new[Len(new)] = <<"path", NameAt(link.size, next)>>
        /\ <<"path", NameAt(link.size, next)>> \in Pieces
        /\ Piece("path", next) = <<"path", NameAt(link.size, next)>>
    <3> HIDE DEF text, next
    <3> QED
      BY <1>0, <1>1, <1>2, PathPiece DEF Piece
  <2>2. Tells(new, Len(text) - 2 * next, link.size, next)
    <3> DEFINE before == Len(text) - 2 * next
               e == <<"path", NameAt(link.size, next)>>
    <3>1. before \in Nat /\ before + 2 * next <= Len(text)
      <4> HIDE DEF text, next
      <4> QED
        BY <1>1, <1>2
    <3>2. new = Append(text, e) /\ e \in Pieces /\ Tells(text, before, link.size, next)
      BY <1>1, <2>1
    <3> HIDE DEF text, next, before, e, new
    <3>3. Tells(Append(text, e), before, link.size, next)
      BY <1>1, <1>2, <3>1, <3>2, TellsStill
    <3> QED
      BY <3>2, <3>3 DEF before
  <2> HIDE DEF text, next, new
  <2>3. /\ link'.pc = "share" /\ link'.size = link.size /\ link'.idx = next
        /\ link'.left = link.left /\ link'.client = link.client /\ link'.text = new
        /\ link'.whole = link.whole
    BY <1>0, <1>3 DEF LinkTypeOK
  <2>4. LinkTypeOK'
    BY <1>0, <1>2, <1>3, <2>1 DEF LinkTypeOK, Pieces
  <2>5. Len(new) - (2 * next + 1) = Len(text) - 2 * next
    <3>1. \A a, b \in Nat : (a + 1) - (2 * b + 1) = a - 2 * b
      OBVIOUS
    <3> QED
      BY <1>1, <1>2, <2>1, <3>1
  <2> QED
    BY <1>1, <1>2, <2>1, <2>2, <2>3, <2>4, <2>5 DEF LinkInv, LinkProgress
<1>4. CASE /\ next = Count(link.size)
           /\ link' = [link EXCEPT !.pc = "write", !.client = NoClient,
                                   !.text = text, !.whole = TRUE]
  <2> HIDE DEF text, next
  <2>1. /\ link'.pc = "write" /\ link'.size = link.size /\ link'.idx = link.idx
        /\ link'.left = link.left /\ link'.client = NoClient /\ link'.text = text
    BY <1>0, <1>4 DEF LinkTypeOK
  <2>2. LinkTypeOK'
    BY <1>0, <1>1, <1>4 DEF LinkTypeOK, Pieces
  <2> QED
    BY <1>1, <1>4, <2>1, <2>2 DEF LinkInv, LinkProgress
<1> QED
  BY <1>3, <1>4 DEF Shared

LEMMA ShareThrewFits ==
    ASSUME LinkInv, ShareThrew PROVE LinkInv'
<1> DEFINE retry == op[link.client].result = "server" /\ link.left > 1
<1>0. LinkTypeOK /\ LinkProgress /\ link.pc = "share"
  BY DEF LinkInv, ShareThrew
<1>1. link' = [link EXCEPT !.pc = IF retry THEN "acquire" ELSE "write",
                           !.left = link.left - 1, !.client = NoClient]
  BY DEF ShareThrew
<1>2. link.left \in 0..Retries /\ link.left >= 1 /\ ~link.whole /\ Retries \in Nat
  BY <1>0, LinkFields, LinkAssumption DEF LinkProgress
<1>3. retry => link.left - 1 >= 1
  BY <1>2
<1>4. link.left - 1 \in 0..Retries
  BY <1>2
<1> HIDE DEF retry
<1>5. /\ link'.pc = IF retry THEN "acquire" ELSE "write"
      /\ link'.left = link.left - 1 /\ link'.text = link.text /\ link'.whole = link.whole
  BY <1>0, <1>1 DEF LinkTypeOK
<1>6. LinkTypeOK'
  BY <1>0, <1>1, <1>4 DEF LinkTypeOK
<1>7. AddressesFollow(link.text)
  BY <1>0 DEF LinkProgress
<1> QED
  BY <1>2, <1>3, <1>5, <1>6, <1>7 DEF LinkInv, LinkProgress

LEMMA LinkKept ==
    ASSUME LinkInv, link' = link PROVE LinkInv'
BY DEF LinkInv, LinkTypeOK, LinkProgress

LEMMA LinkStepFits ==
    ASSUME LinkInv, LinkStep \/ \E n \in Sizes : FlushLink(n) PROVE LinkInv'
<1>1. WriteLink => (link = NoLink)'
  BY DEF WriteLink
<1>2. (link = NoLink)' => LinkInv'
  BY NoLinkFits, PTL
<1> QED
  BY <1>1, <1>2, FlushLinkFits, BeginAttemptFits, SharedFits, ShareThrewFits DEF LinkStep

(***************************************************************************)
(* The names are counted from 0, so the rank of a name is its number.      *)
(***************************************************************************)
LEMMA LinkIsWhole ==
    ASSUME LinkInv PROVE LinkNamesEveryPart
<1> DEFINE s == [i \in 1..link.size |-> 0]
           names == DOMAIN StoredAs(s)
           n == Count(link.size)
           before == Len(link.text) - 2 * n
<1>0. LinkTypeOK /\ LinkProgress /\ link.size \in Nat /\ n \in Nat \ {0}
  BY LinkFields, CountType DEF LinkInv
<1>1. Len(s) = link.size
  BY <1>0, LenDomain
<1>2. /\ IsCompound(link.size) => names = 0..(n - 1)
      /\ ~IsCompound(link.size) => names = {Whole} /\ n = 1
  <2> HIDE DEF s
  <2> QED
    BY <1>0, <1>1, NamesInUse
<1> HIDE DEF s, names
<1>3. Cardinality(names) = n
  <2>1. Cardinality(0..(n - 1)) = n
    BY <1>0, FS_Interval
  <2>2. Cardinality({Whole}) = 1
    BY FS_Singleton
  <2> QED
    BY <1>2, <2>1, <2>2
<1>4. ASSUME NEW x \in names
      PROVE  LET i == Cardinality({y \in names : y < x})
             IN  i \in 0..(n - 1) /\ NameAt(link.size, i) = x
  <2>1. CASE IsCompound(link.size)
    <3>1. x \in 0..(n - 1) /\ {y \in names : y < x} = 0..(x - 1)
      BY <1>0, <1>2, <1>4, <2>1
    <3>2. Cardinality(0..(x - 1)) = x
      BY <3>1, FS_Interval
    <3> QED
      BY <2>1, <3>1, <3>2 DEF NameAt
  <2>2. CASE ~IsCompound(link.size)
    <3>1. x = Whole /\ {y \in names : y < x} = {} /\ n = 1
      BY <1>2, <1>4, <2>2 DEF Whole
    <3>2. Cardinality({}) = 0
      BY FS_EmptySet
    <3> QED
      BY <2>2, <3>1, <3>2 DEF NameAt
  <2> QED
    BY <2>1, <2>2
<1>5. ASSUME link.pc = "write", link.whole, NEW x \in names
      PROVE  LET line == (Len(link.text) - 2 * Cardinality(names))
                         + 2 * Cardinality({y \in names : y < x})
             IN  /\ line >= 0
                 /\ link.text[line + 1] = <<"path", x>>
                 /\ link.text[line + 2] = <<"url", x>>
  <2> DEFINE i == Cardinality({y \in names : y < x})
  <2>1. i \in 0..(n - 1) /\ NameAt(link.size, i) = x
    BY <1>4
  <2>2. before >= 0 /\ Tells(link.text, before, link.size, n) /\ before \in Int
    BY <1>0, <1>5, LinkFields DEF LinkProgress
  <2> HIDE DEF i, before, n
  <2>3. /\ link.text[before + 2 * i + 1] = <<"path", x>>
        /\ link.text[before + 2 * i + 2] = <<"url", x>>
    BY <2>1, <2>2 DEF Tells
  <2>4. before + 2 * i >= 0
    BY <1>0, <2>1, <2>2
  <2> QED
    BY <1>3, <2>3, <2>4 DEF i, before
<1>6. AddressesFollow(link.text)
  BY <1>0 DEF LinkProgress
<1> QED
  BY <1>5, <1>6, Zenon DEF LinkNamesEveryPart, AddressesFollow, names, s

-----------------------------------------------------------------------------
(* main. *)

LEMMA SettingsType ==
    ASSUME settings \in Settings, NEW k \in Keys
    PROVE  /\ settings.cli[k] \in Int /\ settings.file[k] \in Int
           /\ settings.readable \in BOOLEAN /\ Merged(k) \in Int
<1>1. /\ settings.cli[k] \in Int /\ settings.file[k] \in Int
      /\ settings.readable \in BOOLEAN
  BY MountAssumption
<1> QED
  BY <1>1 DEF Merged

(***************************************************************************)
(* loadConfigFile merges as the user expects: the command line first.      *)
(***************************************************************************)
LEMMA AskedIsMerged ==
    ASSUME settings \in Settings, NEW k \in Keys PROVE Asked(k) = Merged(k)
<1> DEFINE a == settings.cli[k]
           b == settings.file[k]
           given == <<a>> \o (IF settings.readable THEN <<b>> ELSE <<>>)
           there == {i \in DOMAIN given : given[i] # 0}
           first == CHOOSE i \in there : \A j \in there : i <= j
<1>1. a \in Int /\ b \in Int /\ settings.readable \in BOOLEAN
  BY SettingsType
<1>2. Asked(k) = IF there = {} THEN 0 ELSE given[first]
  BY DEF Asked
<1>3. Merged(k) = IF a = 0 /\ settings.readable THEN b ELSE a
  BY DEF Merged
<1>4. CASE settings.readable
  <2>1. given = <<a, b>>
    <3> DEFINE s == <<a>> \o <<b>>
               t == <<a, b>>
    <3>1. /\ <<a>> \in Seq(Int) /\ <<b>> \in Seq(Int) /\ t \in Seq(Int)
          /\ Len(<<a>>) = 1 /\ Len(<<b>>) = 1 /\ <<a>>[1] = a /\ <<b>>[1] = b
          /\ Len(t) = 2 /\ t[1] = a /\ t[2] = b
      BY <1>1
    <3>2. /\ s \in Seq(Int) /\ Len(s) = 2 /\ s[1] = a /\ s[2] = b
      BY <3>1, ConcatProperties
    <3>3. \A i \in 1..2 : i = 1 \/ i = 2
      OBVIOUS
    <3> HIDE DEF s, t
    <3>4. s = t
      BY <3>1, <3>2, <3>3, SeqEqual
    <3> QED
      BY <1>4, <3>4 DEF s, t
  <2>2. DOMAIN given = {1, 2} /\ given[1] = a /\ given[2] = b
    BY <2>1
  <2> HIDE DEF a, b, given
  <2>3. CASE a # 0
    <3>1. 1 \in there /\ there \subseteq {1, 2}
      BY <2>2, <2>3
    <3> HIDE DEF there
    <3>2. \A i \in there : (\A j \in there : i <= j) <=> i = 1
      BY <3>1
    <3>3. first = 1
      BY <3>1, <3>2
    <3> QED
      BY <1>2, <1>3, <2>2, <2>3, <3>1, <3>3
  <2>4. CASE a = 0 /\ b # 0
    <3>1. there = {2}
      BY <2>2, <2>4
    <3> HIDE DEF there
    <3>2. first = 2
      BY <3>1
    <3> QED
      BY <1>2, <1>3, <1>4, <2>2, <2>4, <3>1, <3>2
  <2>5. CASE a = 0 /\ b = 0
    <3>1. there = {}
      BY <2>2, <2>5
    <3> QED
      BY <1>2, <1>3, <1>4, <2>5, <3>1
  <2> QED
    BY <2>3, <2>4, <2>5
<1>5. CASE ~settings.readable
  <2>1. given = <<a>>
    BY <1>5
  <2>2. DOMAIN given = {1} /\ given[1] = a
    BY <2>1
  <2> HIDE DEF a, b, given
  <2>3. CASE a # 0
    <3>1. there = {1}
      BY <2>2, <2>3
    <3> HIDE DEF there
    <3>2. first = 1
      BY <3>1
    <3> QED
      BY <1>2, <1>3, <1>5, <2>2, <2>3, <3>1, <3>2
  <2>4. CASE a = 0
    <3>1. there = {}
      BY <2>2, <2>4
    <3> QED
      BY <1>2, <1>3, <1>5, <2>4, <3>1
  <2> QED
    BY <2>3, <2>4
<1> QED
  BY <1>1, <1>4, <1>5

(* The general options come from four of the fields. *)
LEMMA GeneralFrom ==
    ASSUME NEW f, NEW g, NEW kind, f.proxyUrl = g.proxyUrl,
           f.maxDownloadRate = g.maxDownloadRate, f.maxUploadRate = g.maxUploadRate,
           f.csrfToken = g.csrfToken
    PROVE  General(f, kind) = General(g, kind)
BY DEF General, PerformAction, PerformGet

(* Only a login makes the requests of a login. *)
LEMMA NoLoginRequest ==
    ASSUME ClientTypeOK, NEW c \in Clients, ~Idle(c), op[c].name # "login"
    PROVE  Request(c) \notin Logins
<1>1. Sound(op[c]) /\ op[c].todo # <<>>
  BY BusyClient
<1>2. op[c].todo \in Seq(Kinds)
  BY <1>1 DEF Sound, OpType
<1>3. Head(op[c].todo) = op[c].todo[1] /\ 1 \in DOMAIN op[c].todo
  BY <1>1, <1>2
<1> QED
  BY <1>1, <1>3 DEF Sound, Request

LEMMA LoginRequest ==
    ASSUME LoginStands, running, phase = "login", ~Idle(First)
    PROVE  /\ fields[First].csrfToken = 0
           /\ \/ op[First].todo = <<"main", "auth", "cloud">> /\ Request(First) = "main"
              \/ /\ op[First].todo = <<"auth", "cloud">> /\ Request(First) = "auth"
                 /\ "main" \in fields[First].cookies
              \/ /\ op[First].todo = <<"cloud">> /\ Request(First) = "cloud"
                 /\ {"main", "auth"} \subseteq fields[First].cookies
BY DEF LoginStands, Idle, Request

LEMMA RequestsAreOwn ==
    ASSUME MountInv PROVE RequestIsItsOwn
<1> SUFFICES ASSUME NEW c \in Clients, running, ~Idle(c)
             PROVE  LET kind == Request(c)
                        user == [proxyUrl |-> Proxy(Asked("proxyurl")),
                                 maxDownloadRate |-> Asked("max-download-rate") * 1024,
                                 maxUploadRate |-> Asked("max-upload-rate") * 1024,
                                 csrfToken |-> IF kind \in Logins THEN 0 ELSE 1]
                    IN  /\ options[c] = Own(kind) \cup General(user, kind)
                        /\ kind \notin Logins => fields[c].cookies = Logins
  BY DEF RequestIsItsOwn
<1> DEFINE kind == Request(c)
           user == [proxyUrl |-> Proxy(Asked("proxyurl")),
                    maxDownloadRate |-> Asked("max-download-rate") * 1024,
                    maxUploadRate |-> Asked("max-upload-rate") * 1024,
                    csrfToken |-> IF kind \in Logins THEN 0 ELSE 1]
<1>1. ClientTypeOK /\ HandlesFit /\ MainInv
  BY DEF MountInv
<1>2. options[c] = Own(kind) \cup General(fields[c], kind)
  BY <1>1 DEF HandlesFit, HandleFits
<1>3. Worker(c)
  BY <1>1 DEF MainInv, WorkersFit
<1>4. UserFields(fields[c])
  BY <1>1, <1>3 DEF Worker, MainInv, FirstIsSet, PoolIsSet
<1>5. /\ Asked("proxyurl") = Merged("proxyurl")
      /\ Asked("max-download-rate") = Merged("max-download-rate")
      /\ Asked("max-upload-rate") = Merged("max-upload-rate")
  BY <1>1, AskedIsMerged DEF MainInv, Keys
<1>6. /\ fields[c].csrfToken = IF kind \in Logins THEN 0 ELSE 1
      /\ kind \notin Logins => fields[c].cookies = Logins
  <2>1. CASE c = First /\ phase = "login"
    BY <1>1, <2>1, LoginRequest DEF MainInv, Logins
  <2>2. CASE c \in Pool /\ phase = "mounted" /\ op[c].name # "login"
    BY <1>1, <2>2, NoLoginRequest DEF MainInv, PoolIsSet, SessionOpen
  <2> QED
    BY <1>3, <2>1, <2>2 DEF Worker
<1>7. General(fields[c], kind) = General(user, kind)
  <2>1. /\ fields[c].proxyUrl = user.proxyUrl
        /\ fields[c].maxDownloadRate = user.maxDownloadRate
        /\ fields[c].maxUploadRate = user.maxUploadRate
        /\ fields[c].csrfToken = user.csrfToken
    BY <1>4, <1>5, <1>6 DEF UserFields
  <2> HIDE DEF user, kind
  <2> QED
    BY <2>1, GeneralFrom
<1> QED
  BY <1>2, <1>6, <1>7

-----------------------------------------------------------------------------
(* The steps of main. *)

CoreInv == ClientTypeOK /\ HandlesFit /\ MainInv

LEMMA FirstFacts == First \in Clients /\ First \notin Pool /\ Pool \subseteq Clients
BY MountAssumption, LinkAssumption

LEMMA ExitKeeps ==
    ASSUME CoreInv, Exit PROVE CoreInv'
<1>1. /\ running' = FALSE /\ fields' = fields /\ options' = options /\ op' = op
      /\ stored' = stored /\ settings' = settings /\ conf' = conf /\ phase' = phase
  BY DEF Exit, mountVars
<1>2. ClientTypeOK'
  BY <1>1 DEF CoreInv, ClientTypeOK
<1>3. MainInv'
  BY <1>1 DEF CoreInv, MainInv, ConfIsMerged, Merged, FirstIsSet, PoolIsSet, UserFields,
              SessionOpen, LoginStands, WorkersFit
<1> QED
  BY <1>1, <1>2, <1>3 DEF CoreInv, HandlesFit

(* Before the login no client works. *)
LEMMA NobodyWorks ==
    ASSUME MainInv, running, phase \notin {"login", "mounted"}
    PROVE  \A c \in Clients : Idle(c)
BY DEF MainInv, WorkersFit, Worker

LEMMA LoadConfigFileKeeps ==
    ASSUME CoreInv, LoadConfigFile PROVE CoreInv'
<1>1. CASE Exit
  BY <1>1, ExitKeeps
<1>2. CASE /\ conf' = [k \in Keys |-> Merged(k)] /\ phase' = "configured"
           /\ UNCHANGED <<clientVars, link, settings>>
  <2>1. /\ running /\ phase = "start" /\ settings' = settings /\ fields' = fields
        /\ options' = options /\ op' = op /\ stored' = stored /\ running' = running
    BY <1>2 DEF LoadConfigFile, clientVars
  <2>2. ClientTypeOK' /\ HandlesFit' /\ MainInv
    BY <2>1 DEF CoreInv, ClientTypeOK, HandlesFit, HandleFits, Idle, Request
  <2>3. \A c \in Clients : Idle(c)
    BY <2>1, <2>2, NobodyWorks
  <2>4. conf' \in [Keys -> Int] /\ settings \in Settings
    BY <1>2, <2>2, SettingsType DEF MainInv
  <2>5. fields[First].csrfToken = 0
    BY <2>1, <2>2 DEF MainInv, LoginStands
  <2>6. \A k \in Keys : conf'[k] = Merged(k)' 
    BY <1>2, <2>1 DEF Merged
  <2>7. LoginStands'
    BY <1>2, <2>1, <2>5 DEF LoginStands
  <2> QED
    BY <1>2, <2>1, <2>2, <2>3, <2>4, <2>6, <2>7
       DEF CoreInv, MainInv, ConfIsMerged, FirstIsSet, PoolIsSet, WorkersFit, Worker, Idle
<1> QED
  BY <1>1, <1>2 DEF LoadConfigFile

LEMMA SetUpKeeps ==
    ASSUME CoreInv, SetUp PROVE CoreInv'
<1>1. CASE Exit
  BY <1>1, ExitKeeps
<1>2. CASE ~Exit
  <2> DEFINE p == Proxy(conf["proxyurl"])
             d == conf["max-download-rate"] * 1024
             u == conf["max-upload-rate"] * 1024
             f == [fields[First] EXCEPT !.proxyUrl = p, !.maxDownloadRate = d,
                                        !.maxUploadRate = u]
  <2>0. /\ running /\ phase = "configured" /\ phase' = "ready" /\ settings' = settings
        /\ fields' = [fields EXCEPT ![First].proxyUrl = p, ![First].maxDownloadRate = d,
                                    ![First].maxUploadRate = u]
        /\ conf' = conf /\ options' = options /\ op' = op /\ stored' = stored
        /\ running' = running
    BY <1>2 DEF SetUp
  <2>1. ClientTypeOK /\ HandlesFit /\ MainInv /\ conf \in [Keys -> Int]
    BY DEF CoreInv, MainInv
  <2>2. p \in Int /\ d \in Int /\ u \in Int
    BY <2>1 DEF Keys, Proxy
  <2>3. /\ p = Proxy(Merged("proxyurl")) /\ d = Merged("max-download-rate") * 1024
        /\ u = Merged("max-upload-rate") * 1024
    BY <2>0, <2>1 DEF MainInv, ConfIsMerged, Keys
  <2> HIDE DEF p, d, u
  <2>4. fields[First] \in Fields /\ fields \in [Clients -> Fields]
    BY <2>1, FirstFacts DEF ClientTypeOK
  <2>5. /\ f \in Fields /\ f.proxyUrl = p /\ f.maxDownloadRate = d /\ f.maxUploadRate = u
        /\ f.csrfToken = fields[First].csrfToken
    BY <2>2, <2>4 DEF Fields
  <2>6. fields' = [fields EXCEPT ![First] = f]
    BY <2>0, <2>4, FirstFacts
  <2> HIDE DEF f
  <2>7. /\ fields' \in [Clients -> Fields] /\ fields'[First] = f
    BY <2>4, <2>5, <2>6, FirstFacts
  <2>8. \A c \in Clients : Idle(c)
    BY <2>0, <2>1, NobodyWorks
  <2>9. ClientTypeOK' /\ HandlesFit'
    BY <2>0, <2>1, <2>7, <2>8 DEF ClientTypeOK, HandlesFit, HandleFits, Idle
  <2>10. FirstIsSet'
    BY <2>0, <2>3, <2>5, <2>7 DEF FirstIsSet, UserFields, Merged
  <2>11. LoginStands'
    BY <2>0, <2>1, <2>5, <2>7 DEF MainInv, LoginStands
  <2>12. ConfIsMerged'
    BY <2>0, <2>1 DEF MainInv, ConfIsMerged, Merged
  <2> QED
    BY <2>0, <2>1, <2>8, <2>9, <2>10, <2>11, <2>12
       DEF CoreInv, MainInv, PoolIsSet, WorkersFit, Worker, Idle
<1> QED
  BY <1>1, <1>2

LEMMA LogInKeeps ==
    ASSUME CoreInv, LogIn PROVE CoreInv'
<1>1. CASE Exit
  BY <1>1, ExitKeeps
<1>2. CASE ~Exit
  <2>0. /\ running /\ phase = "ready" /\ phase' = "login" /\ settings' = settings
        /\ conf' = conf /\ Start(First, Login)
    BY <1>2 DEF LogIn
  <2>1. ClientTypeOK /\ HandlesFit /\ MainInv
    BY DEF CoreInv
  <2>2. fields' = fields /\ running'
    BY <2>0 DEF Start
  <2>3. /\ ClientTypeOK' /\ HandlesFit' /\ op'[First] = Login
        /\ \A d \in Clients \ {First} : op'[d] = op[d]
    BY <2>0, <2>1, StartKeeps, FirstFacts
  <2>4. Login.todo = <<"main", "auth", "cloud">> /\ Login.name = "login"
    BY DEF Login, Operation
  <2>5. LoginStands'
    BY <2>0, <2>1, <2>2, <2>3, <2>4 DEF MainInv, LoginStands
  <2>6. WorkersFit'
    <3>1. \A c \in Clients : Idle(c)
      BY <2>0, <2>1, NobodyWorks
    <3> QED
      BY <2>0, <2>3, <2>4, <3>1 DEF WorkersFit, Worker, Idle
  <2>7. ConfIsMerged' /\ FirstIsSet' /\ PoolIsSet'
    BY <2>0, <2>1, <2>2 DEF MainInv, ConfIsMerged, FirstIsSet, PoolIsSet, UserFields, Merged
  <2> QED
    BY <2>0, <2>1, <2>3, <2>5, <2>6, <2>7 DEF CoreInv, MainInv
<1> QED
  BY <1>1, <1>2

LEMMA PopulateKeeps ==
    ASSUME CoreInv, Populate PROVE CoreInv'
<1>0. /\ running /\ phase = "login" /\ phase' = "populated" /\ settings' = settings
      /\ conf' = conf /\ CopyClient(First, Pool) /\ Idle(First)
  BY DEF Populate
<1>1. ClientTypeOK /\ HandlesFit /\ MainInv
  BY DEF CoreInv
<1>2. \A c \in Clients : Idle(c)
  BY <1>0, <1>1 DEF MainInv, WorkersFit, Worker
<1>3. /\ ClientTypeOK' /\ HandlesFit' /\ op' = op
      /\ \A c \in Clients : fields'[c] = IF c \in Pool THEN fields[First] ELSE fields[c]
  BY <1>0, <1>1, <1>2, CopyKeeps, FirstFacts
<1>4. SessionOpen(fields[First]) /\ UserFields(fields[First])
  BY <1>0, <1>1 DEF MainInv, LoginStands, Idle, FirstIsSet
<1>5. /\ \A c \in Pool : fields'[c] = fields[First]
      /\ fields'[First] = fields[First]
  BY <1>3, FirstFacts
<1>6. FirstIsSet' /\ PoolIsSet'
  BY <1>0, <1>4, <1>5 DEF FirstIsSet, PoolIsSet, UserFields, SessionOpen, Merged
<1>7. ConfIsMerged' /\ LoginStands' /\ WorkersFit'
  BY <1>0, <1>1, <1>2, <1>3
     DEF MainInv, ConfIsMerged, LoginStands, WorkersFit, Worker, Idle, Merged
<1> QED
  BY <1>0, <1>1, <1>3, <1>6, <1>7 DEF CoreInv, MainInv

LEMMA CheckCacheDirKeeps ==
    ASSUME CoreInv, CheckCacheDir PROVE CoreInv'
<1>1. CASE Exit
  BY <1>1, ExitKeeps
<1>2. CASE ~Exit
  <2>1. /\ running /\ phase = "populated" /\ phase' = "mounted" /\ settings' = settings
        /\ conf' = conf /\ fields' = fields /\ options' = options /\ op' = op
        /\ stored' = stored /\ running' = running
    BY <1>2 DEF CheckCacheDir, clientVars
  <2>2. ClientTypeOK' /\ HandlesFit' /\ MainInv
    BY <2>1 DEF CoreInv, ClientTypeOK, HandlesFit, HandleFits, Idle, Request
  <2>3. \A c \in Clients : Idle(c)
    BY <2>1, <2>2, NobodyWorks
  <2> QED
    BY <2>1, <2>2, <2>3
       DEF CoreInv, MainInv, ConfIsMerged, FirstIsSet, PoolIsSet, UserFields, SessionOpen,
           LoginStands, WorkersFit, Worker, Idle, Merged
<1> QED
  BY <1>1, <1>2

LEMMA MainStepKeeps ==
    ASSUME CoreInv, MainStep PROVE CoreInv' /\ link' = link
<1>1. CoreInv'
  BY LoadConfigFileKeeps, SetUpKeeps, LogInKeeps, PopulateKeeps, CheckCacheDirKeeps
     DEF MainStep
<1>2. link' = link
  BY DEF MainStep, LoadConfigFile, SetUp, LogIn, Populate, CheckCacheDir, Exit
<1> QED
  BY <1>1, <1>2

-----------------------------------------------------------------------------
(* The steps of the clients. *)

LEMMA WorkKeeps ==
    ASSUME CoreInv, phase = "mounted", NEW c \in Pool, NEW o \in Operations, Start(c, o),
           UNCHANGED mountVars
    PROVE  CoreInv'
<1>0. /\ running /\ fields' = fields /\ settings' = settings /\ conf' = conf
      /\ phase' = phase /\ c \in Clients
  BY FirstFacts DEF Start, mountVars
<1>1. ClientTypeOK /\ HandlesFit /\ MainInv
  BY DEF CoreInv
<1>2. /\ ClientTypeOK' /\ HandlesFit' /\ op'[c] = o
      /\ \A d \in Clients \ {c} : op'[d] = op[d]
  BY <1>0, <1>1, StartKeeps
<1>3. o.name # "login"
  BY OperationsAreSound
<1>4. WorkersFit'
  BY <1>0, <1>1, <1>2, <1>3 DEF MainInv, WorkersFit, Worker, Idle
<1>5. ConfIsMerged' /\ FirstIsSet' /\ PoolIsSet' /\ LoginStands'
  BY <1>0, <1>1 DEF MainInv, ConfIsMerged, FirstIsSet, PoolIsSet, LoginStands, UserFields,
                    SessionOpen, Merged
<1> QED
  BY <1>0, <1>1, <1>2, <1>4, <1>5 DEF CoreInv, MainInv

(* The login goes on: main page, credentials, cloud page. *)
LEMMA LoginGoesOn ==
    ASSUME CoreInv, phase = "login", Answered(First), UNCHANGED mountVars PROVE CoreInv'
<1> DEFINE f == fields[First]
           g == Session(f, Request(First))
           todo == op[First].todo
<1>0. /\ running /\ ~Idle(First) /\ running' = running /\ settings' = settings
      /\ conf' = conf /\ phase' = phase
  BY DEF Answered, mountVars
<1>1. ClientTypeOK /\ HandlesFit /\ MainInv
  BY DEF CoreInv
<1>2. /\ ClientTypeOK' /\ HandlesFit'
      /\ \A d \in Clients \ {First} : op'[d] = op[d] /\ fields'[d] = fields[d]
      /\ fields'[First] = g
      /\ \/ Tail(todo) = <<>> /\ op'[First] = NoOp("ok")
         \/ /\ Tail(todo) # <<>>
            /\ op'[First] = [op[First] EXCEPT !.todo = Tail(todo)]
  BY <1>1, AnsweredKeeps, FirstFacts
<1>3. f \in Fields /\ op[First].name = "login"
  BY <1>0, <1>1, FirstFacts DEF ClientTypeOK, MainInv, WorkersFit, Worker
<1>4. UserFields(f) /\ LoginStands
  BY <1>1 DEF MainInv, FirstIsSet
<1>5. UserFields(g)
  BY <1>3, <1>4
     DEF UserFields, Session, OpenMainPage, Authenticate, OpenCloudPage, Fields
<1>6. op[First] \in OpType
  BY <1>0, <1>1, BusyClient, FirstFacts DEF Sound
<1>7. /\ op'[First].todo = Tail(todo)
      /\ Tail(todo) # <<>> => op'[First].name = "login"
  <2>1. NoOp("ok").todo = <<>>
    BY DEF NoOp
  <2>2. \A x \in OpType : \A t : /\ [x EXCEPT !.todo = t].todo = t
                                  /\ [x EXCEPT !.todo = t].name = x.name
    BY DEF OpType
  <2>3. /\ [op[First] EXCEPT !.todo = Tail(todo)].todo = Tail(todo)
        /\ [op[First] EXCEPT !.todo = Tail(todo)].name = "login"
    BY <1>3, <1>6, <2>2
  <2> HIDE DEF todo
  <2>4. CASE Tail(todo) = <<>>
    BY <1>2, <2>1, <2>4
  <2>5. CASE Tail(todo) # <<>>
    BY <1>2, <2>3, <2>5, Zenon
  <2> QED
    BY <2>4, <2>5
<1>8. f.cookies \subseteq Logins
  BY <1>3 DEF Fields
<1>9. LoginStands'
  <2>1. CASE todo = <<"main", "auth", "cloud">> /\ Request(First) = "main"
    <3>1. Tail(todo) = <<"auth", "cloud">>
      BY <2>1
    <3>2. g.csrfToken = 0 /\ "main" \in g.cookies
      BY <1>0, <1>3, <1>4, <2>1, LoginRequest DEF Session, OpenMainPage, Fields
    <3> QED
      BY <1>0, <1>2, <1>7, <3>1, <3>2 DEF LoginStands
  <2>2. CASE /\ todo = <<"auth", "cloud">> /\ Request(First) = "auth" /\ "main" \in f.cookies
    <3>1. Tail(todo) = <<"cloud">>
      BY <2>2
    <3>2. g.csrfToken = 0 /\ {"main", "auth"} \subseteq g.cookies
      BY <1>0, <1>3, <1>4, <2>2, LoginRequest DEF Session, Authenticate, Fields
    <3> QED
      BY <1>0, <1>2, <1>7, <3>1, <3>2 DEF LoginStands
  <2>3. CASE /\ todo = <<"cloud">> /\ Request(First) = "cloud"
             /\ {"main", "auth"} \subseteq f.cookies
    <3>1. Tail(todo) = <<>>
      BY <2>3
    <3>2. g.csrfToken = 1 /\ g.cookies = Logins
      BY <1>3, <1>8, <2>3 DEF Session, OpenCloudPage, Fields, Logins
    <3> QED
      BY <1>0, <1>2, <1>7, <3>1, <3>2 DEF LoginStands, SessionOpen
  <2> QED
    BY <1>0, <1>4, <2>1, <2>2, <2>3, LoginRequest
<1>10. WorkersFit'
  <2>1. \A c \in Clients \ {First} : Idle(c)
    BY <1>0, <1>1 DEF MainInv, WorkersFit, Worker
  <2> QED
    BY <1>0, <1>2, <1>7, <2>1 DEF WorkersFit, Worker, Idle
<1>11. ConfIsMerged' /\ FirstIsSet' /\ PoolIsSet'
  <2> HIDE DEF g
  <2> QED
    BY <1>0, <1>1, <1>2, <1>5
       DEF MainInv, ConfIsMerged, FirstIsSet, PoolIsSet, UserFields, Merged
<1> QED
  BY <1>0, <1>1, <1>2, <1>9, <1>10, <1>11 DEF CoreInv, MainInv

LEMMA AnswerKeeps ==
    ASSUME CoreInv, NEW c \in Clients, Answered(c), UNCHANGED mountVars PROVE CoreInv'
<1>0. /\ running /\ ~Idle(c) /\ running' = running /\ settings' = settings
      /\ conf' = conf /\ phase' = phase
  BY DEF Answered, mountVars
<1>1. ClientTypeOK /\ HandlesFit /\ MainInv
  BY DEF CoreInv
<1>2. CASE c = First /\ phase = "login"
  BY <1>2, LoginGoesOn
<1>3. CASE c \in Pool /\ phase = "mounted" /\ op[c].name # "login"
  <2>1. /\ ClientTypeOK' /\ HandlesFit'
        /\ \A d \in Clients \ {c} : op'[d] = op[d] /\ fields'[d] = fields[d]
        /\ fields'[c] = Session(fields[c], Request(c))
        /\ \/ op'[c] = NoOp("ok")
           \/ op'[c] = [op[c] EXCEPT !.todo = Tail(op[c].todo)]
    BY <1>1, AnsweredKeeps
  <2>2. Request(c) \notin Logins
    BY <1>0, <1>1, <1>3, NoLoginRequest
  <2>3. Session(fields[c], Request(c)) = fields[c]
    BY <2>2 DEF Session, Logins
  <2>4. \A d \in Clients : fields'[d] = fields[d]
    BY <2>1, <2>3
  <2>5. op[c] \in OpType
    BY <1>0, <1>1, BusyClient DEF Sound
  <2>6. op'[c].name # "login"
    BY <1>3, <2>1, <2>5 DEF NoOp, OpType
  <2>7. WorkersFit'
    BY <1>0, <1>1, <1>3, <2>1, <2>6 DEF MainInv, WorkersFit, Worker, Idle
  <2>8. ConfIsMerged' /\ FirstIsSet' /\ PoolIsSet' /\ LoginStands'
    BY <1>0, <1>1, <1>3, <2>4, FirstFacts
       DEF MainInv, ConfIsMerged, FirstIsSet, PoolIsSet, LoginStands, UserFields,
           SessionOpen, Merged
  <2> QED
    BY <1>0, <1>1, <2>1, <2>7, <2>8 DEF CoreInv, MainInv
<1> QED
  BY <1>0, <1>1, <1>2, <1>3 DEF MainInv, WorkersFit, Worker

LEMMA BreakKeeps ==
    ASSUME CoreInv, NEW c \in Clients, Failed(c) \/ Garbled(c) \/ LateEffect(c),
           UNCHANGED mountVars
    PROVE  CoreInv'
<1>0. settings' = settings /\ conf' = conf /\ phase' = phase
  BY DEF mountVars
<1>1. ClientTypeOK /\ HandlesFit /\ MainInv
  BY DEF CoreInv
<1>2. /\ ClientTypeOK' /\ HandlesFit' /\ fields' = fields
      /\ \A d \in Clients \ {c} : op'[d] = op[d]
      /\ \E r \in Results : op'[c] = NoOp(r)
      /\ running' => running /\ op[c].name # "login"
      /\ ~Idle(c)
  BY <1>1, BrokenKeeps
<1>3. op'[c].todo = <<>>
  BY <1>2, IdleState
<1>4. ConfIsMerged' /\ FirstIsSet' /\ PoolIsSet'
  BY <1>0, <1>1, <1>2 DEF MainInv, ConfIsMerged, FirstIsSet, PoolIsSet, UserFields,
                          SessionOpen, Merged
<1>5. running' => phase = "mounted"
  BY <1>1, <1>2 DEF MainInv, WorkersFit, Worker
<1>6. LoginStands'
  BY <1>0, <1>5 DEF LoginStands
<1>7. WorkersFit'
  BY <1>0, <1>1, <1>2, <1>3 DEF MainInv, WorkersFit, Worker, Idle
<1> QED
  BY <1>0, <1>1, <1>2, <1>4, <1>6, <1>7 DEF CoreInv, MainInv

LEMMA SameKeeps ==
    ASSUME CoreInv, UNCHANGED <<clientVars, mountVars>> PROVE CoreInv'
BY DEF CoreInv, clientVars, mountVars, ClientTypeOK, HandlesFit, HandleFits, Idle, Request,
       MainInv, ConfIsMerged, FirstIsSet, PoolIsSet, LoginStands, WorkersFit, Worker,
       UserFields, SessionOpen, Merged

-----------------------------------------------------------------------------
LEMMA ShareIsOperation == Share \in Operations
BY DEF Operations

(***************************************************************************)
(* What a step of a link file does to the clients: it starts a share with  *)
(* one of the pool, or nothing.                                            *)
(***************************************************************************)
LEMMA LinkWorks ==
    ASSUME LinkInv, LinkStep \/ \E n \in Sizes : FlushLink(n)
    PROVE  UNCHANGED clientVars \/ \E c \in Pool : Start(c, Share)
<1>1. CASE \E n \in Sizes : FlushLink(n)
  BY <1>1 DEF FlushLink
<1>2. CASE \E c \in Pool : BeginAttempt(c)
  BY <1>2 DEF BeginAttempt
<1>3. CASE Shared
  <2>1. link.client \in Pool
    BY <1>3 DEF Shared, LinkInv, LinkProgress
  <2> QED
    BY <1>3, <2>1 DEF Shared
<1>4. CASE ShareThrew \/ WriteLink
  BY <1>4 DEF ShareThrew, WriteLink
<1> QED
  BY <1>1, <1>2, <1>3, <1>4 DEF LinkStep

(***************************************************************************)
(* Every step of the program is a start of an operation by a client that   *)
(* is idle, the end of a request, or leaves the cloud and the operations   *)
(* alone.                                                                  *)
(***************************************************************************)
LEMMA StepsOfClients ==
    ASSUME MountInv, [Next]_vars
    PROVE  \/ UNCHANGED <<op, stored>>
           \/ \E c \in Clients : \E o \in Operations \cup {Login} : Start(c, o)
           \/ \E c \in Clients : Answered(c) \/ Failed(c) \/ Garbled(c) \/ LateEffect(c)
<1>1. CASE UNCHANGED vars
  BY <1>1 DEF vars, clientVars
<1>2. CASE MainStep
  BY <1>2, FirstFacts DEF MainStep, LoadConfigFile, SetUp, LogIn, Populate, CheckCacheDir,
                          Exit, CopyClient, clientVars
<1>3. CASE Work
  BY <1>3, FirstFacts DEF Work, Operate
<1>4. CASE Link
  BY <1>4, LinkWorks, ShareIsOperation, FirstFacts DEF Link, MountInv, LinkInv, clientVars
<1>5. CASE \E c \in Clients : Cloud(c)
  BY <1>5 DEF Cloud, Respond
<1> QED
  BY <1>1, <1>2, <1>3, <1>4, <1>5 DEF Next

LEMMA InitFits == Init => MountInv
<1> SUFFICES ASSUME Init PROVE MountInv
  OBVIOUS
<1>1. LinkInv
  BY NoLinkFits DEF Init
<1>2. "none" \in Results
  BY DEF Results
<1>3. NewClient \in Fields /\ NewClient.csrfToken = 0
  BY DEF NewClient, Fields
<1>4. NoOp("none") \in OpStates /\ NoOp("none").todo = <<>>
  BY <1>2, IdleState
<1>5. ClientTypeOK
  BY <1>3, <1>4 DEF Init, ClientInit, ClientTypeOK, OptionSets
<1>6. \A c \in Clients : op[c] = NoOp("none") /\ options[c] = {} /\ fields[c] = NewClient
  BY DEF Init, ClientInit
<1>7. HandlesFit /\ WorkersFit
  BY <1>4, <1>6 DEF HandlesFit, HandleFits, WorkersFit, Worker, Idle
<1>8. LoginStands
  BY <1>3, <1>6, FirstFacts DEF LoginStands, Init
<1>9. MainInv
  BY <1>7, <1>8 DEF MainInv, Init, ConfIsMerged, FirstIsSet, PoolIsSet
<1> QED
  BY <1>1, <1>5, <1>7, <1>9 DEF MountInv, LinkInv

LEMMA StepFits ==
    ASSUME MountInv, [Next]_vars PROVE MountInv'
<1>1. CoreInv /\ LinkInv
  BY DEF MountInv, CoreInv, LinkInv
<1>2. CASE UNCHANGED vars
  BY <1>1, <1>2, SameKeeps, LinkKept DEF vars, MountInv, CoreInv, LinkInv
<1>3. CASE MainStep
  BY <1>1, <1>3, MainStepKeeps, LinkKept DEF MountInv, CoreInv, LinkInv
<1>4. CASE Work
  BY <1>1, <1>4, WorkKeeps, LinkKept DEF Work, Operate, MountInv, CoreInv, LinkInv
<1>5. CASE Link
  <2>1. LinkInv'
    BY <1>1, <1>5, LinkStepFits DEF Link
  <2>2. CoreInv'
    BY <1>1, <1>5, LinkWorks, ShareIsOperation, WorkKeeps, SameKeeps DEF Link
  <2> QED
    BY <2>1, <2>2 DEF MountInv, CoreInv, LinkInv
<1>6. CASE \E c \in Clients : Cloud(c)
  BY <1>1, <1>6, AnswerKeeps, BreakKeeps, LinkKept
     DEF Cloud, Respond, MountInv, CoreInv, LinkInv
<1> QED
  BY <1>2, <1>3, <1>4, <1>5, <1>6 DEF Next

-----------------------------------------------------------------------------
THEOREM MountInvariant == Spec => []MountInv
BY InitFits, StepFits, PTL DEF Spec

(***************************************************************************)
(* Types.  A client is always between two operations or has the last       *)
(* requests of one still to make, in the order the code makes them; a link *)
(* file is at a part that exists, with attempts left that are never below  *)
(* zero (handleLinks, doWithRetry).                                        *)
(***************************************************************************)
THEOREM MountTypeCorrect == Spec => []TypeOK
<1>1. MountInv => TypeOK
  BY DEF MountInv, MainInv, TypeOK
<1> QED
  BY <1>1, MountInvariant, PTL

(***************************************************************************)
(* Every request of every client goes out with its own options, the user's *)
(* proxy and rate limits and, after the login, the whole session, and with *)
(* nothing left over from another request (performAction, performGet, the  *)
(* ScopeGuards, the copy constructor), however many clients work at once.  *)
(***************************************************************************)
THEOREM RequestsKeepApart == Spec => []RequestIsItsOwn
<1>1. MountInv => RequestIsItsOwn
  BY RequestsAreOwn
<1> QED
  BY <1>1, MountInvariant, PTL

(***************************************************************************)
(* A link file that handleLinks completes ends with one line for each name *)
(* the file is stored under, in order, for every size and every number of  *)
(* attempts, and no address stands behind a name that is not its own.      *)
(***************************************************************************)
THEOREM LinksAreWhole == Spec => []LinkNamesEveryPart
<1>1. MountInv => LinkNamesEveryPart
  BY LinkIsWhole DEF MountInv, LinkInv
<1> QED
  BY <1>1, MountInvariant, PTL

LEMMA StoredStaysWhole ==
    ASSUME AsciiBodies, MountInv, StoredIsWhole, [Next]_vars PROVE StoredIsWhole'
<1>0. ClientTypeOK /\ HandlesFit
  BY DEF MountInv
<1>1. CASE stored' = stored
  BY <1>1 DEF StoredIsWhole
<1>2. ASSUME NEW c \in Clients, Answered(c) PROVE StoredIsWhole'
  <2>1. ~Idle(c) /\ stored' = Effect(op[c])
    BY <1>2 DEF Answered
  <2>2. Sound(op[c])
    BY <1>0, <2>1, BusyClient
  <2> QED
    BY <2>1, <2>2, EffectIsWhole
<1>3. ASSUME NEW c \in Clients, Failed(c) \/ Garbled(c) \/ LateEffect(c)
      PROVE  StoredIsWhole'
  <2>1. Sound(op[c]) /\ (stored' = stored \/ stored' = Effect(op[c]))
    BY <1>0, <1>3, BrokenKeeps
  <2> QED
    BY <2>1, EffectIsWhole
<1> QED
  BY <1>1, <1>2, <1>3, StepsOfClients DEF Start

(***************************************************************************)
(* Unless a byte is a negative char, what the cloud holds is a whole part  *)
(* of some body, nothing or an empty file, after any number of uploads,    *)
(* failures, crashes and late effects (upload, toPadded40Hex).             *)
(***************************************************************************)
THEOREM CloudHoldsWholeParts ==
    ASSUME AsciiBodies PROVE Spec => []StoredIsWhole
<1>1. Init => StoredIsWhole
  BY DEF Init, ClientInit, StoredIsWhole
<1>2. MountInv /\ StoredIsWhole /\ [Next]_vars => StoredIsWhole'
  BY StoredStaysWhole
<1> QED
  BY <1>1, <1>2, MountInvariant, PTL DEF Spec

LEMMA UploadEndsStored ==
    ASSUME AsciiBodies, MountInv, [Next]_vars, NEW c \in Clients,
           op[c].name = "upload", op'[c] = NoOp("ok")
    PROVE  stored' = op[c].data
<1>0. ClientTypeOK /\ HandlesFit /\ NoOp("ok").name = "none" /\ NoOp("ok").todo = <<>>
  BY DEF MountInv, NoOp
<1>1. op'[c] # op[c]
  BY <1>0
<1>2. ~(\E d \in Clients : \E o \in Operations \cup {Login} : Start(d, o))
  BY <1>0, <1>1, StartKeeps
<1>3. ~(\E d \in Clients : Failed(d) \/ Garbled(d) \/ LateEffect(d))
  <2> SUFFICES ASSUME NEW d \in Clients, Failed(d) \/ Garbled(d) \/ LateEffect(d)
               PROVE  FALSE
    OBVIOUS
  <2>1. \A e \in Clients \ {d} : op'[e] = op[e]
    BY <1>0, BrokenKeeps
  <2>2. PICK r \in Results \ {"ok"} : op'[d] = NoOp(r)
    BY <1>0, BrokenKeeps
  <2>3. NoOp(r).result = r /\ NoOp("ok").result = "ok"
    BY DEF NoOp
  <2> QED
    BY <1>1, <2>1, <2>2, <2>3
<1>4. Answered(c)
  <2>1. PICK d \in Clients : Answered(d)
    BY <1>1, <1>2, <1>3, StepsOfClients
  <2>2. \A e \in Clients \ {d} : op'[e] = op[e]
    BY <1>0, <2>1, AnsweredKeeps
  <2> QED
    BY <1>1, <2>1, <2>2
<1>5. Sound(op[c]) /\ op[c] \in OpStates /\ op[c].todo # <<>>
  BY <1>0, <1>4, BusyClient DEF Answered
<1>6. Tail(op[c].todo) = <<>>
  <2>1. op[c] \in OpType
    BY <1>5 DEF Sound
  <2>2. \A x \in OpType : \A t : [x EXCEPT !.todo = t].name = x.name
    BY DEF OpType
  <2>3. [op[c] EXCEPT !.todo = Tail(op[c].todo)].name = "upload"
    BY <2>1, <2>2
  <2>4. op'[c] # [op[c] EXCEPT !.todo = Tail(op[c].todo)]
    BY <1>0, <2>3
  <2> QED
    BY <1>0, <1>4, <2>4, AnsweredKeeps
<1>7. Len(op[c].todo) = 1
  BY <1>5, <1>6, RestIsState
<1>8. Head(op[c].todo) = "add"
  <2>1. op[c].todo \in Seq(Kinds) /\ op[c].todo[Len(op[c].todo)] = "add"
    BY <1>5 DEF Sound, OpType
  <2> QED
    BY <1>5, <1>7, <2>1
<1> QED
  BY <1>4, <1>5, <1>8, AddedIsData DEF Answered, Effect

(***************************************************************************)
(* Unless a byte is a negative char, an upload that returns has stored the *)
(* bytes it was given, whatever the other clients do meanwhile (upload,    *)
(* addUploadedFile).                                                       *)
(***************************************************************************)
THEOREM UploadsAreStored ==
    ASSUME AsciiBodies PROVE Spec => UploadStoresBody
<1>1. MountInv /\ [Next]_vars =>
         [\A c \in Clients : op[c].name = "upload" /\ op'[c] = NoOp("ok")
              => stored' = op[c].data]_clientVars
  BY UploadEndsStored
<1> QED
  BY <1>1, MountInvariant, PTL DEF Spec, UploadStoresBody
=============================================================================
