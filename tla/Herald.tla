------------------------------- MODULE Herald -------------------------------
(***************************************************************************)
(* The herald: roles/herald/herald_agent.c.  It runs the broker as a child   *)
(* process and issues, revokes and expires the agents' credentials, which    *)
(* are records in memory, logins in the password file and, for privileged    *)
(* roles, entries of the ACL file; the broker knows what it last loaded.     *)
(*                                                                         *)
(* creds is g_creds by what cred_find() compares, the first 63 characters of *)
(* a name.  Times are what is left of them.  Passwords and texts are left    *)
(* out, and so is --no-auth, where there are neither logins nor an ACL.      *)
(***************************************************************************)
EXTENDS Naturals, FiniteSets

CONSTANTS
  Names,
  Prefix,       \* what cred_find() sees of a name
  MaxCreds,     \* MAX_CREDS
  TTL,          \* --credential-ttl, or 0 for none
  RestartDelay, \* RESTART_DELAY_SEC
  MaxRestarts   \* MAX_RESTARTS

ASSUME HeraldAssumption ==
  /\ Prefix \in [Names -> Names]
  /\ {MaxCreds, MaxRestarts} \subseteq Nat \ {0}
  /\ {TTL, RestartDelay} \subseteq Nat

VARIABLES
  running,   \* the herald runs
  step,      \* of its loop: "select", "check", "expire", or how it ends
  creds,     \* g_creds
  passwd,    \* the logins of the password file
  acl,       \* the privileged users of the ACL file
  child,     \* the broker that was started: "none", "up", or "exited"
  loaded,    \* the logins and privileged users that it serves
  orphan,    \* a broker of an earlier herald still has the port
  restarts,  \* g_broker_restarts
  delay,     \* what is left of RESTART_DELAY_SEC since the last start
  excused    \* ghost: logins that lost their records, or never had one

vars == <<running, step, creds, passwd, acl, child, loaded, orphan, restarts,
          delay, excused>>
brokerVars == <<child, orphan, restarts, delay>>
credVars == <<creds, passwd, acl, excused>>

Files(logins, users) == [logins |-> logins, users |-> users]

NoFiles == Files({}, {})

NoCreds == [k \in {} |-> "none"]

Init == /\ running = FALSE /\ step = "select"
        /\ creds = NoCreds /\ passwd = {} /\ acl = {}
        /\ child = "none" /\ loaded = NoFiles /\ orphan = FALSE
        /\ restarts = 0 /\ delay = 0
        /\ excused = {}

Recorded == {creds[k].name : k \in DOMAIN creds}

\* write_acl_file()
Privileged(table) ==
  {table[k].name : k \in {k \in DOMAIN table : table[k].privileged}}

\* broker_reload(): a broker that runs loads the files as they are now.
Reload == loaded' = IF child = "up" THEN Files(passwd', acl') ELSE loaded

-----------------------------------------------------------------------------
(* Credentials *)

Record(n, privileged) == [name |-> n, privileged |-> privileged, left |-> TTL]

HasRoom(n) == Prefix[n] \in DOMAIN creds \/ Cardinality(DOMAIN creds) < MaxCreds

\* The name that was recorded for the same prefix is forgotten.
Forgotten(n) == {creds[k].name : k \in DOMAIN creds \cap {Prefix[n]}} \ {n}

\* cred_issue(), for POST /credentials/issue and /credentials/request: the login
\* is made first; a herald that has no room then refuses.
Issue(n, privileged) ==
  /\ passwd' = passwd \union {n}
  /\ IF HasRoom(n)
     THEN /\ creds' = [k \in DOMAIN creds \union {Prefix[n]} |->
                        IF k = Prefix[n] THEN Record(n, privileged)
                        ELSE creds[k]]
          /\ acl' = Privileged(creds')
          /\ excused' = (excused \union Forgotten(n)) \ {n}
          /\ Reload
     ELSE /\ excused' = excused \union {n}
          /\ UNCHANGED <<creds, acl, loaded>>

PasswdFails(n) == UNCHANGED <<credVars, loaded>>

\* The logins stay; only the records go.
BugDropped(gone, failed, forgotten) == passwd' = passwd /\ excused' = excused

\* mosquitto_passwd -D, whose result is not looked at.
Dropped(gone, failed, forgotten) ==
  /\ passwd' = passwd \ (gone \ failed)
  /\ excused' = (excused \ (gone \ failed)) \union (failed \cap passwd)
                                            \union forgotten

\* cred_revoke(): the record that goes may be of another name with the prefix.
Revoke(n, failed) ==
  /\ creds' = [k \in DOMAIN creds \ {Prefix[n]} |-> creds[k]]
  /\ Dropped({n}, failed, Forgotten(n))
  /\ acl' = Privileged(creds')
  /\ Reload

InLoop(at, next) == running /\ step = at /\ step' = next

\* http_serve_once(), or select() runs out: nothing is asked.
Serve == /\ InLoop("select", "check")
         /\ \/ \E n \in Names, privileged \in BOOLEAN : Issue(n, privileged)
            \/ \E n \in Names : PasswdFails(n)
            \/ \E n \in Names : \E failed \in SUBSET {n} : Revoke(n, failed)
            \/ UNCHANGED <<credVars, loaded>>
         /\ UNCHANGED <<running, brokerVars>>

HasExpired(k) == k \in DOMAIN creds /\ TTL > 0 /\ creds[k].left = 0

\* The loop over the records stops short of the first.
BugExpired == {k \in DOMAIN creds : HasExpired(k) /\ DOMAIN creds # {k}}

Expired == {k \in DOMAIN creds : HasExpired(k)}

\* cred_expire_check(), in a last round too.
ExpireCheck ==
  /\ InLoop("expire", "select") \/ InLoop("last", "over")
  /\ IF Expired = {} THEN UNCHANGED <<credVars, loaded>>
     ELSE /\ creds' = [k \in DOMAIN creds \ Expired |-> creds[k]]
          /\ \E failed \in SUBSET {creds[k].name : k \in Expired} :
               Dropped({creds[k].name : k \in Expired}, failed, {})
          /\ acl' = Privileged(creds')
          /\ Reload
  /\ UNCHANGED <<running, brokerVars>>

-----------------------------------------------------------------------------
(* The broker *)

\* A broker that starts loads the files, unless another one has the port.
Fork == /\ child' = IF orphan THEN "exited" ELSE "up"
        /\ loaded' = IF orphan THEN NoFiles ELSE Files(passwd, acl)
        /\ restarts' = restarts + 1
        /\ delay' = RestartDelay

\* The child that was reaped is taken for one that runs.
BugIsDown == child = "none"

IsDown == child # "up"

\* broker_check() and broker_start(): still too early, or one more start.
TooEarly == /\ InLoop("check", "expire") /\ IsDown /\ delay > 0
            /\ child' = "none"
            /\ UNCHANGED <<running, credVars, loaded, orphan, restarts, delay>>

StartBroker == /\ InLoop("check", "expire") /\ IsDown /\ delay = 0
               /\ restarts < MaxRestarts
               /\ Fork
               /\ UNCHANGED <<running, credVars, orphan>>

ForkFails == /\ InLoop("check", "expire") /\ IsDown /\ delay = 0
             /\ restarts < MaxRestarts
             /\ child' = "none"
             /\ UNCHANGED <<running, credVars, loaded, orphan, restarts, delay>>

\* Too many starts: g_running = 0, and the loop ends with this round.
GiveUp == /\ InLoop("check", "last") /\ IsDown /\ delay = 0
          /\ restarts >= MaxRestarts
          /\ child' = "none"
          /\ UNCHANGED <<running, credVars, loaded, orphan, restarts, delay>>

IsUp == /\ InLoop("check", "expire") /\ ~IsDown
        /\ UNCHANGED <<running, credVars, loaded, brokerVars>>

BrokerDies == /\ child = "up" /\ child' = "exited" /\ loaded' = NoFiles
              /\ UNCHANGED <<running, step, credVars, orphan, restarts, delay>>

OrphanDies == /\ orphan /\ orphan' = FALSE
              /\ UNCHANGED <<running, step, credVars, child, loaded, restarts,
                             delay>>

-----------------------------------------------------------------------------
(* The herald's own life *)

\* main() up to its loop: the files that are derived are written again, the
\* logins stay as they were.  A fork that fails is the end of it.
Start == /\ ~running /\ running' = TRUE /\ step' = "select"
         /\ acl' = Privileged(creds) /\ passwd' = passwd
         /\ child' = IF orphan THEN "exited" ELSE "up"
         /\ loaded' = IF orphan THEN NoFiles ELSE Files(passwd, Privileged(creds))
         /\ restarts' = 1 /\ delay' = RestartDelay
         /\ UNCHANGED <<creds, orphan, excused>>

\* Its memory is lost, and with it what the logins were for.
Forget == /\ running' = FALSE /\ step' = "select"
          /\ creds' = NoCreds
          /\ excused' = excused \union passwd
          /\ child' = "none" /\ loaded' = NoFiles
          /\ restarts' = 0 /\ delay' = 0
          /\ UNCHANGED <<passwd, acl>>

\* on_signal(): the broker is stopped with the herald.
Stop == running /\ Forget /\ UNCHANGED orphan

\* main() returns after the last round.
End == step = "over" /\ Stop

\* Killed, the herald leaves its broker behind.
Die == running /\ Forget /\ orphan' = (orphan \/ child = "up")

\* A second.
Tick == /\ delay' = IF delay = 0 THEN 0 ELSE delay - 1
        /\ creds' = [k \in DOMAIN creds |->
                      [creds[k] EXCEPT !.left = IF @ = 0 THEN 0 ELSE @ - 1]]
        /\ UNCHANGED <<running, step, passwd, acl, child, loaded, orphan,
                       restarts, excused>>

Next == \/ Serve \/ TooEarly \/ StartBroker \/ ForkFails \/ GiveUp \/ IsUp
        \/ ExpireCheck \/ BrokerDies \/ OrphanDies \/ Start \/ Stop \/ End \/ Die
        \/ Tick

Spec == Init /\ [][Next]_vars

\* The loop goes round (its select() has a timeout), time passes, and fork()
\* does not fail for ever.
FairSpec == /\ Spec
            /\ WF_vars(Serve) /\ WF_vars(TooEarly \/ GiveUp \/ IsUp)
            /\ WF_vars(ExpireCheck) /\ WF_vars(End) /\ WF_vars(Tick)
            /\ WF_vars(StartBroker \/ ForkFails) /\ SF_vars(StartBroker)

-----------------------------------------------------------------------------
(* Correctness *)

TypeOK ==
  /\ running \in BOOLEAN /\ step \in {"select", "check", "expire", "last", "over"}
  /\ DOMAIN creds \subseteq Names
  /\ \A k \in DOMAIN creds :
       creds[k] \in [name : Names, privileged : BOOLEAN, left : 0..TTL]
  /\ Cardinality(DOMAIN creds) <= MaxCreds
  /\ passwd \subseteq Names /\ acl \subseteq Names /\ excused \subseteq Names
  /\ child \in {"none", "up", "exited"} /\ orphan \in BOOLEAN
  /\ restarts \in 0..MaxRestarts /\ delay \in 0..RestartDelay

\* Records and logins agree: what is recorded can log in, and who can log in is
\* recorded, but for the names that were refused for want of room, share their
\* first 63 characters, were not deleted, or are of a herald before this one.
LoginsAccounted ==
  /\ TypeOK
  /\ Recorded \subseteq passwd
  /\ passwd \subseteq Recorded \union excused

\* The broker the herald has started serves nobody who was revoked or has
\* expired, grants privileges by the records, and knows every login but those
\* of refused issues (cred_issue(), cred_revoke(), broker_reload()).
ServedIsCurrent ==
  child = "up" => /\ loaded.users = Privileged(creds)
                  /\ Recorded \subseteq loaded.logins
                  /\ loaded.logins \subseteq passwd

\* The three places a credential is kept in, the records, the password file and
\* the running broker, agree as far as they ever do.
CredentialsAgree == LoginsAccounted /\ ServedIsCurrent

\* A credential with a time to live does not stay recorded beyond it.
ExpiredIsRevoked ==
  \A k \in Names : (running /\ HasExpired(k)) ~> ~(running /\ HasExpired(k))

\* A broker that has died is started again, or the herald has given up.
BrokerComesBack == (running /\ child # "up") ~> (child = "up" \/ ~running)
=============================================================================
