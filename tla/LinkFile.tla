------------------------------ MODULE LinkFile ------------------------------
(***************************************************************************)
(* handleLinks (src/src/fuse_hooks.cpp), which flushCallback calls first:  *)
(* a file named like another one with ".marcfs-link" at the end is given   *)
(* the public links of that other file as its content.                     *)
(*                                                                         *)
(* The text is gathered in a variable outside of the lambda that           *)
(* doWithRetry runs again, and the result of doWithRetry is dropped.       *)
(***************************************************************************)
EXTENDS RestClient

CONSTANTS Pool,      \* the clients of the pool
          Retries,   \* attempts of doWithRetry
          NoClient

ASSUME LinkAssumption == Pool \subseteq Clients /\ Retries \in Nat \ {0}

VARIABLE link  \* the flush of a link file: where it is, the size of the other
               \* file, the part it is at, the attempts left, the client, the
               \* text, and whether the lambda returned

Sizes == {0} \cup {Len(s) : s \in Bodies}

NoLink == [pc |-> "idle", size |-> 0, idx |-> 0, left |-> 0,
           client |-> NoClient, text |-> <<>>, whole |-> FALSE]

LinkTypeOK ==
    /\ link \in [pc : {"idle", "acquire", "share", "write"}, size : Sizes,
                 idx : Nat, left : 0..Retries, client : Pool \cup {NoClient},
                 text : Seq({"path", "url"} \X Names), whole : BOOLEAN]
    /\ link.idx < Count(link.size)

(* The line of a part is written in two pieces, around the call of share. *)
Piece(what, idx) == <<what, NameAt(link.size, idx)>>

(***************************************************************************)
(* The call.  The size comes from getattrCallback, whose failure leaves 0. *)
(***************************************************************************)
FlushLink(size) ==
    /\ running /\ link.pc = "idle"
    /\ link' = [NoLink EXCEPT !.pc = "acquire", !.size = size, !.left = Retries]
    /\ UNCHANGED clientVars

(* An attempt begins, with a client from the pool, at the first part. *)
BeginAttempt(c) ==
    /\ link.pc = "acquire"
    /\ c \in Pool
    /\ Start(c, Share)
    /\ link' = [link EXCEPT !.pc = "share", !.client = c, !.idx = 0,
                            !.text = Append(@, Piece("path", 0))]

(***************************************************************************)
(* share returned: the address follows, then the next part, if any.        *)
(***************************************************************************)
Shared ==
    LET text == Append(link.text, Piece("url", link.idx))
        next == link.idx + 1
    IN  /\ running /\ link.pc = "share"
        /\ op[link.client] = NoOp("ok")
        /\ \/ /\ next < Count(link.size)
              /\ Start(link.client, Share)
              /\ link' = [link EXCEPT !.idx = next,
                                      !.text = Append(text, Piece("path", next))]
           \/ /\ next = Count(link.size)
              /\ link' = [link EXCEPT !.pc = "write", !.client = NoClient,
                                      !.text = text, !.whole = TRUE]
              /\ UNCHANGED clientVars

(* Faulty variants: no end of attempts; a retry that goes on where it was  *)
(* but starts the text anew.                                               *)
RetryForever ==
    /\ running /\ link.pc = "share"
    /\ op[link.client].result \in {"server", "refused"}
    /\ link' = [link EXCEPT !.pc = "acquire", !.client = NoClient, !.left = @ - 1]
    /\ UNCHANGED clientVars

RetryWithNewText ==
    /\ running /\ link.pc = "share"
    /\ op[link.client].result = "server" /\ link.left > 1
    /\ Start(link.client, Share)
    /\ link' = [link EXCEPT !.left = @ - 1, !.text = <<Piece("path", link.idx)>>]

(***************************************************************************)
(* share threw.  doWithRetry repeats the lambda after a server error, and  *)
(* gives up after any other one or the last attempt; handleLinks does not  *)
(* look at the outcome.                                                    *)
(***************************************************************************)
ShareThrew ==
    LET retry == op[link.client].result = "server" /\ link.left > 1
    IN  /\ running /\ link.pc = "share"
        /\ op[link.client].result \in {"server", "refused"}
        /\ link' = [link EXCEPT !.pc = IF retry THEN "acquire" ELSE "write",
                                !.left = @ - 1, !.client = NoClient]
        /\ UNCHANGED clientVars

(***************************************************************************)
(* The text replaces what the link file holds, and flush goes on.          *)
(***************************************************************************)
WriteLink ==
    /\ running /\ link.pc = "write"
    /\ link' = NoLink
    /\ UNCHANGED clientVars

LinkStep == (\E c \in Pool : BeginAttempt(c)) \/ Shared \/ ShareThrew \/ WriteLink

-----------------------------------------------------------------------------
(***************************************************************************)
(* README.md: a file above the limit shows up as a series of links, one    *)
(* for each part.  When share succeeded for all of them, the text ends     *)
(* with a line for each name the cloud stores a file of that size under,   *)
(* in order, however often doWithRetry began again; and no address, in     *)
(* any text, stands behind a name that is not its own.                     *)
(***************************************************************************)
LinkNamesEveryPart ==
    /\ link.pc = "write" /\ link.whole =>
          LET names == DOMAIN StoredAs([i \in 1..link.size |-> 0])
              before == Len(link.text) - 2 * Cardinality(names)
          IN  \A x \in names :
                  LET line == before + 2 * Cardinality({y \in names : y < x})
                  IN  /\ line >= 0
                      /\ link.text[line + 1] = <<"path", x>>
                      /\ link.text[line + 2] = <<"url", x>>
    /\ \A i \in DOMAIN link.text :
          link.text[i][1] = "url"
              => i > 1 /\ link.text[i - 1] = <<"path", link.text[i][2]>>
=============================================================================
