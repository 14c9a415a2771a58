------------------------------- MODULE Mount --------------------------------
(***************************************************************************)
(* main (src/src/main.cpp) and the mounted file system at the level of its *)
(* clients: the configuration is read, one client logs in, the pool is     *)
(* populated with copies of it, and then FUSE threads work with the copies *)
(* while one of them flushes a link file.                                  *)
(***************************************************************************)
EXTENDS LinkFile

CONSTANTS First,    \* rc, the client that logs in; it is not in the pool
          Settings  \* command lines and configuration files

(***************************************************************************)
(* A setting is a number: 0 is absent.  Wrong is a value of another JSON   *)
(* type, Empty an empty string, and NoDirectory the path of something else *)
(* than a directory.                                                       *)
(***************************************************************************)
Wrong == -1
Empty == -2
NoDirectory == -3
Keys == {"username", "password", "cachedir", "proxyurl",
         "max-download-rate", "max-upload-rate"}
Rates == {"max-download-rate", "max-upload-rate"}

ASSUME MountAssumption ==
    /\ First \in Clients \ Pool
    /\ \A s \in Settings :
          /\ s.usage \in BOOLEAN /\ s.readable \in BOOLEAN
          /\ s.cli \in [Keys -> Int] /\ s.file \in [Keys -> Int]
          /\ \A k \in Rates :
                s.cli[k] >= Wrong /\ s.file[k] >= Wrong

VARIABLES settings,  \* what this process was started with
          conf,      \* MarcfsConfig
          phase      \* how far main is

mountVars == <<settings, conf, phase>>
vars == <<clientVars, link, mountVars>>

(***************************************************************************)
(* Types.  Of a client: an operation is one of Operations with its last    *)
(* requests still to make.  Of a link: the attempts left are not negative, *)
(* and the part it is at is one the file has.                              *)
(***************************************************************************)
TypeOK ==
    /\ ClientTypeOK
    /\ LinkTypeOK
    /\ settings \in Settings
    /\ conf \in [Keys -> Int]
    /\ phase \in {"start", "configured", "ready", "login", "populated", "mounted"}

Init ==
    /\ ClientInit
    /\ link = NoLink
    /\ settings \in Settings
    /\ conf = [k \in Keys |-> 0]
    /\ phase = "start"

-----------------------------------------------------------------------------
Exit ==
    /\ running' = FALSE
    /\ UNCHANGED <<fields, options, op, stored, link, mountVars>>

(***************************************************************************)
(* fuse_opt_parse and loadConfigFile.  No options, options that cannot be  *)
(* parsed and a request for help end the process.  A rate is one of those: *)
(* its format %l is half a conversion, which no argument matches.  A file  *)
(* that is missing or not JSON is ignored; a value of a wrong type throws. *)
(***************************************************************************)
Merged(k) == IF settings.cli[k] = 0 /\ settings.readable THEN settings.file[k]
             ELSE settings.cli[k]
LoadConfigFile ==
    /\ running /\ phase = "start"
    /\ IF \/ settings.usage
          \/ \E k \in Rates : settings.cli[k] # 0
          \/ \E k \in Keys : Merged(k) = Wrong
       THEN Exit
       ELSE /\ conf' = [k \in Keys |-> Merged(k)]
            /\ phase' = "configured"
            /\ UNCHANGED <<clientVars, link, settings>>

(* Both credentials must be there.  An empty address is no proxy, and the  *)
(* rates are given in KiB/s.                                               *)
Proxy(value) == IF value = Empty THEN 0 ELSE value
SetUp ==
    /\ running /\ phase = "configured"
    /\ IF conf["username"] = 0 \/ conf["password"] = 0
       THEN Exit
       ELSE /\ fields' = [fields EXCEPT
                   ![First].proxyUrl = Proxy(conf["proxyurl"]),
                   ![First].maxDownloadRate = conf["max-download-rate"] * 1024,
                   ![First].maxUploadRate = conf["max-upload-rate"] * 1024]
            /\ phase' = "ready"
            /\ UNCHANGED <<options, op, stored, running, link, settings, conf>>

(* login: an empty login or password throws, and main does not catch it. *)
LogIn ==
    /\ running /\ phase = "ready"
    /\ IF Empty \in {conf["username"], conf["password"]}
       THEN Exit
       ELSE /\ Start(First, Login)
            /\ phase' = "login"
            /\ UNCHANGED <<link, settings, conf>>

(* clientPool.populate: copies of the client that is logged in. *)
Populate ==
    /\ running /\ phase = "login" /\ Idle(First)
    /\ CopyClient(First, Pool)
    /\ phase' = "populated"
    /\ UNCHANGED <<link, settings, conf>>

(* A cachedir must be a directory; then fuse_main takes over. *)
CheckCacheDir ==
    /\ running /\ phase = "populated"
    /\ IF conf["cachedir"] = NoDirectory
       THEN Exit
       ELSE /\ phase' = "mounted"
            /\ UNCHANGED <<clientVars, link, settings, conf>>

MainStep == LoadConfigFile \/ SetUp \/ LogIn \/ Populate \/ CheckCacheDir

(***************************************************************************)
(* A thread that holds c, and is not the one with the link file, calls an  *)
(* operation of it.                                                        *)
(***************************************************************************)
Operate(c, o) ==
    /\ phase = "mounted"
    /\ c # link.client
    /\ Start(c, o)
    /\ UNCHANGED <<link, mountVars>>

Work == \E c \in Pool : \E o \in Operations : Operate(c, o)

Link == phase = "mounted" /\ (LinkStep \/ \E n \in Sizes : FlushLink(n))
                          /\ UNCHANGED mountVars

Cloud(c) == (Respond(c) \/ LateEffect(c)) /\ UNCHANGED <<link, mountVars>>

Next == MainStep \/ Work \/ Link \/ \E c \in Clients : Cloud(c)

(***************************************************************************)
(* main runs on, and the cloud answers its login: CURLOPT_CONNECTTIMEOUT   *)
(* is set, but nothing bounds the wait for an answer.                      *)
(***************************************************************************)
Spec ==
    /\ Init /\ [][Next]_vars
    /\ WF_vars(MainStep) /\ WF_vars(Cloud(First))

-----------------------------------------------------------------------------
(* What the user asked for: the first place that gives a value counts. *)
Asked(k) ==
    LET given == <<settings.cli[k]>>
                 \o (IF settings.readable THEN <<settings.file[k]>> ELSE <<>>)
        there == {i \in DOMAIN given : given[i] # 0}
    IN  IF there = {} THEN 0
        ELSE given[CHOOSE i \in there : \A j \in there : i <= j]

(***************************************************************************)
(* Every request goes out with the options of its own operation, the proxy *)
(* and the rate limit the user asked for, on the command line or else in   *)
(* the file, and, after the login, the token and cookies of the session;   *)
(* with nothing that an earlier request, a failed one or one of the client *)
(* it was copied from left on the handle.                                  *)
(***************************************************************************)
RequestIsItsOwn ==
    \A c \in Clients : running /\ ~Idle(c) =>
        LET kind == Request(c)
            user == [proxyUrl |-> Proxy(Asked("proxyurl")),
                     maxDownloadRate |-> Asked("max-download-rate") * 1024,
                     maxUploadRate |-> Asked("max-upload-rate") * 1024,
                     csrfToken |-> IF kind \in Logins THEN 0 ELSE 1]
        IN  /\ options[c] = Own(kind) \cup General(user, kind)
            /\ kind \notin Logins => fields[c].cookies = Logins

(***************************************************************************)
(* Starting the program leads to a mounted file system or to its end.      *)
(***************************************************************************)
Starts == <>(phase = "mounted" \/ ~running)
=============================================================================
