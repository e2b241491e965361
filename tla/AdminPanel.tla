----------------------------- MODULE AdminPanel -----------------------------
(***************************************************************************)
(* The operators' panel (gateway_app.py) and the state of the gateway it   *)
(* works on (gateway.py): users, roles and second factors, the policy file *)
(* with its hash-chained ledger of changes, the configuration and the SIEM *)
(* forwarder, and the draft policy learnt from denied calls.               *)
(*                                                                         *)
(* The routes are synchronous, so requests run in threads: a save of the   *)
(* policy writes, ledgers and reloads in steps that other saves interleave *)
(* with.  A restart keeps only what the files hold.                        *)
(***************************************************************************)
EXTENDS Integers, Sequences, FiniteSets, SequencesExt

CONSTANTS
    Threads,      \* request threads of the panel
    Keys,         \* api keys
    AdminKey,     \* RAUCLE_ADMIN_KEY, an administrator at every start
    Contents,     \* policy contents
    Valid,        \* the contents PolicyFile.from_dict accepts
    Empty,        \* no policy file, or no rules
    None,         \* no user, no request
    BufferCap,    \* bound of the SIEM buffer while forwarding is off (100)
    MaxLedger,    \* bound: ledger entries
    MaxChanges,   \* bound: changes of users and configuration
    MaxEvents,    \* bound: gate decisions
    MaxRestarts   \* bound: restarts

VARIABLES
    users,        \* users[k]: [role, secret, mfa], or None
    userFile,     \* the user store's file: role and secret
    policy,       \* the policy file
    inForce,      \* the content whose rules are loaded
    ledger,       \* the ledger's file: entries [seq, actor, content, prev]
    head,         \* _policy_ledger_head: the entry it is the hash of, or None
    request,      \* request[t]: a save under way: [key, content, step, entry], or None
    config,       \* config.siem_enabled
    forwarding,   \* siem.enabled
    buffer,       \* the SIEM buffer's length
    confirmed,    \* history: keys whose second factor was verified and not changed since
    forgotten,    \* history: those of them confirmed before a restart
    overlapped,   \* history: two saves were under way together
    restarted,    \* history: where entries of a gateway that found others begin
    unledgered,   \* history: the policy file's last change has no entry
    failedSave,   \* history: a configuration was not persisted
    used          \* how much of each bound has been used

vars == <<users, userFile, policy, inForce, ledger, head, request, config, forwarding, buffer,
          confirmed, forgotten, overlapped, restarted, unledgered, failedSave, used>>

people == <<users, userFile, confirmed, forgotten>>
desk   == <<policy, inForce, ledger, head, request, overlapped, restarted, unledgered>>
siem   == <<config, forwarding, buffer, failedSave>>

Uses(b, max) == used[b] < max /\ used' = [used EXCEPT ![b] = @ + 1]

----------------------------------------------------------------------------
(* Who may do what *)

(* GatewayUser.requires_mfa *)
RequiresMfa(u) == u.mfa /\ u.secret

(* What the panel's closure hands on as the code: the default of its own
   parameter, not the request's X-TOTP header.  No secret yields it. *)
PassedOn(code) == "default"

(* UserManager.verify_totp *)
VerifyTotp(u, code) == u.secret /\ code = "right"

CheckAuth_KeyOnly(k, code) == users[k] # None   \* wrong: the second factor is not asked for

(* _check_auth, through get_user *)
CheckAuth(k, code) ==
    /\ users[k] # None
    /\ RequiresMfa(users[k]) => VerifyTotp(users[k], PassedOn(code))

(* UserManager.can_access *)
CanAccess(k, resource) ==
    /\ users[k] # None
    /\ \/ users[k].role = "admin"
       \/ users[k].role = "operator" /\ resource \in {"policies", "stats", "receipts", "config"}
       \/ users[k].role = "auditor" /\ resource \in {"stats", "receipts"}

(* The opening of every route: check_auth, then check_access. *)
Admitted(k, code, resource) == CheckAuth(k, code) /\ CanAccess(k, resource)

----------------------------------------------------------------------------
(* Users *)

(* _persist_users: the role and the secret, never whether the factor is on. *)
Persisted(us) ==
    [k \in Keys |-> IF us[k] = None THEN None ELSE [role |-> us[k].role, secret |-> us[k].secret]]

(* _load_users *)
LoadUsers ==
    [k \in Keys |-> IF userFile[k] = None THEN None
                    ELSE [role |-> userFile[k].role, secret |-> userFile[k].secret, mfa |-> FALSE]]

SetUser(k, u) ==
    /\ users' = [users EXCEPT ![k] = u]
    /\ userFile' = Persisted(users')
    /\ confirmed' = confirmed \ {k}
    /\ forgotten' = forgotten \ {k}
    /\ UNCHANGED <<desk, siem>>

(* create_user, add_user *)
CreateUser(by, code, k, role) ==
    /\ Uses("changes", MaxChanges)
    /\ Admitted(by, code, "users")
    /\ SetUser(k, [role |-> role, secret |-> FALSE, mfa |-> FALSE])

(* delete_user, remove_user *)
DeleteUser(by, code, k) ==
    /\ Uses("changes", MaxChanges)
    /\ Admitted(by, code, "users")
    /\ users[k] # None
    /\ SetUser(k, None)

(* setup_mfa: a new secret, and the factor is off until it is verified. *)
SetupMfa(by, code, k) ==
    /\ Uses("changes", MaxChanges)
    /\ Admitted(by, code, "users")
    /\ users[k] # None
    /\ SetUser(k, [users[k] EXCEPT !.secret = TRUE, !.mfa = FALSE])

(* verify_mfa_setup, verify_mfa: nothing is persisted. *)
VerifyMfa(by, code, k, first) ==
    /\ Uses("changes", MaxChanges)
    /\ Admitted(by, code, "users")
    /\ users[k] # None /\ VerifyTotp(users[k], first)
    /\ users' = [users EXCEPT ![k].mfa = TRUE]
    /\ confirmed' = confirmed \cup {k}
    /\ forgotten' = forgotten \ {k}
    /\ UNCHANGED <<userFile, desk, siem>>

(* disable_mfa *)
DisableMfa(by, code, k) ==
    /\ Uses("changes", MaxChanges)
    /\ Admitted(by, code, "users")
    /\ users[k] # None
    /\ SetUser(k, [users[k] EXCEPT !.secret = FALSE, !.mfa = FALSE])

----------------------------------------------------------------------------
(* The policy file and its ledger *)

(* _load_policies: a file that does not load is passed over. *)
Rules(content) == IF content \in Valid THEN content ELSE Empty

(* update_policies: admitted, validated, and the file is written. *)
WritePolicy(t, by, code, c) ==
    /\ request[t] = None
    /\ Len(ledger) + Cardinality({s \in Threads : request[s] # None}) < MaxLedger
    /\ Admitted(by, code, "policies")
    /\ c \in Valid
    /\ policy' = c
    /\ request' = [request EXCEPT ![t] = [key |-> by, content |-> c, step |-> "ledger", entry |-> None]]
    /\ overlapped' = (overlapped \/ \E s \in Threads : request[s] # None)
    /\ UNCHANGED <<people, inForce, ledger, head, restarted, unledgered, siem, used>>

(* The write fails: the request ends in an error, with no entry and no reload,
   and leaves the old file, an empty one, or as much as was written, which may
   load or not. *)
WriteFails(t, by, code, c) ==
    /\ request[t] = None
    /\ Uses("events", MaxEvents)
    /\ Admitted(by, code, "policies")
    /\ c \in Valid
    /\ policy' \in Contents \cup {policy, Empty}
    /\ unledgered' = (unledgered \/ policy' # policy)
    /\ overlapped' = (overlapped \/ \E s \in Threads : request[s] # None)
    /\ UNCHANGED <<people, inForce, ledger, head, request, restarted, siem>>

(* A content that does not load is refused before anything is written. *)
RefusePolicy(by, code, c) ==
    /\ Admitted(by, code, "policies")
    /\ c \notin Valid
    /\ UNCHANGED <<people, desk, siem, used>>

(* _append_policy_ledger reads the lines and the head ... *)
ComposeEntry(t) ==
    LET r == request[t] IN
    /\ r # None /\ r.step = "ledger"
    /\ request' = [request EXCEPT ![t].step = "append",
                                  ![t].entry = [seq |-> Len(ledger) + 1, actor |-> r.key,
                                                content |-> r.content, prev |-> head]]
    /\ UNCHANGED <<people, policy, inForce, ledger, head, overlapped, restarted, unledgered,
                   siem, used>>

AppendEntry_HeadKept(t) ==   \* wrong: the head is not moved to the new entry
    LET r == request[t] IN
    /\ r # None /\ r.step = "append"
    /\ ledger' = Append(ledger, r.entry)
    /\ head' = IF head = None THEN r.entry ELSE head
    /\ request' = [request EXCEPT ![t].step = "reload", ![t].entry = None]
    /\ unledgered' = FALSE
    /\ UNCHANGED <<people, policy, inForce, overlapped, restarted, siem, used>>

(* ... then writes the entry and moves the head. *)
AppendEntry(t) ==
    LET r == request[t] IN
    /\ r # None /\ r.step = "append"
    /\ ledger' = Append(ledger, r.entry)
    /\ head' = r.entry
    /\ request' = [request EXCEPT ![t].step = "reload", ![t].entry = None]
    /\ unledgered' = FALSE
    /\ UNCHANGED <<people, policy, inForce, overlapped, restarted, siem, used>>

(* The ledger cannot be written: the save goes on without an entry. *)
AppendFails(t) ==
    LET r == request[t] IN
    /\ r # None /\ r.step = "ledger"
    /\ Uses("events", MaxEvents)
    /\ request' = [request EXCEPT ![t].step = "reload"]
    /\ unledgered' = TRUE
    /\ UNCHANGED <<people, policy, inForce, ledger, head, overlapped, restarted, siem>>

(* reload_policies, at the end of a save ... *)
ReloadSaved(t) ==
    /\ request[t] # None /\ request[t].step = "reload"
    /\ inForce' = Rules(policy)
    /\ request' = [request EXCEPT ![t] = None]
    /\ UNCHANGED <<people, policy, ledger, head, overlapped, restarted, unledgered, siem, used>>

(* ... and as a route of its own. *)
Reload(by, code) ==
    /\ Admitted(by, code, "policies")
    /\ inForce' = Rules(policy)
    /\ UNCHANGED <<people, policy, ledger, head, request, overlapped, restarted, unledgered,
                   siem, used>>

(* verify_policy_ledger: every entry names its predecessor's hash. *)
VerifyLedger(l) ==
    \A i \in DOMAIN l : l[i].prev = (IF i = 1 THEN None ELSE l[i-1])

----------------------------------------------------------------------------
(* Configuration and the SIEM forwarder *)

UpdateConfig_Unpushed(by, code, on, saved) ==   \* wrong: what runs is not told
    /\ Uses("changes", MaxChanges)
    /\ Admitted(by, code, "config")
    /\ config' = on
    /\ failedSave' = (failedSave \/ ~saved)
    /\ UNCHANGED <<people, desk, buffer, forwarding>>

(* update_config: the fields, then the file, then what runs follows what
   changed.  update_from_dict finds no change in a value already there. *)
UpdateConfig(by, code, on, saved) ==
    LET changed == config # on IN
    /\ Uses("changes", MaxChanges)
    /\ Admitted(by, code, "config")
    /\ config' = on
    /\ forwarding' = IF saved /\ changed THEN on ELSE forwarding
    /\ failedSave' = (failedSave \/ ~saved)
    /\ UNCHANGED <<people, desk, buffer>>

(* update_siem_config: both at once, and nothing is persisted. *)
UpdateSiem(by, code, on) ==
    /\ Uses("changes", MaxChanges)
    /\ Admitted(by, code, "config")
    /\ config' = on
    /\ forwarding' = on
    /\ UNCHANGED <<people, desk, buffer, failedSave>>

(* SIEMForwarder.forward: bounded only while forwarding is off. *)
Forward(fails) ==
    /\ Uses("events", MaxEvents)
    /\ buffer' = IF ~forwarding THEN (IF buffer + 1 > BufferCap THEN buffer ELSE buffer + 1)
                 ELSE IF fails THEN buffer + 1
                 ELSE buffer
    /\ UNCHANGED <<people, desk, config, forwarding, failedSave>>

----------------------------------------------------------------------------
(* gateway_server.main: the user store is read and the administrator of the
   environment put back; the head of the ledger starts anew; the saved
   configuration is not read. *)
Restart ==
    /\ Uses("restarts", MaxRestarts)
    /\ users' = [LoadUsers EXCEPT ![AdminKey] = [role |-> "admin", secret |-> FALSE, mfa |-> FALSE]]
    /\ userFile' = Persisted(users')
    /\ inForce' = Rules(policy)
    /\ head' = None
    /\ request' = [t \in Threads |-> None]
    /\ config' = FALSE
    /\ forwarding' = FALSE
    /\ buffer' = 0
    /\ forgotten' = confirmed
    /\ restarted' = IF ledger = <<>> THEN restarted ELSE restarted \cup {Len(ledger) + 1}
    /\ unledgered' = (unledgered \/ \E t \in Threads : request[t] # None
                                                    /\ request[t].step # "reload")
    /\ UNCHANGED <<policy, ledger, overlapped, confirmed, failedSave>>

Init ==
    /\ users = [k \in Keys |-> IF k = AdminKey THEN [role |-> "admin", secret |-> FALSE, mfa |-> FALSE]
                               ELSE None]
    /\ userFile = Persisted(users)
    /\ policy \in Valid \cup {Empty}
    /\ inForce = policy
    /\ ledger = <<>>
    /\ head = None
    /\ request = [t \in Threads |-> None]
    /\ config = FALSE
    /\ forwarding = FALSE
    /\ buffer = 0
    /\ confirmed = {}
    /\ forgotten = {}
    /\ overlapped = FALSE
    /\ restarted = {}
    /\ unledgered = FALSE
    /\ failedSave = FALSE
    /\ used = [changes |-> 0, events |-> 0, restarts |-> 0]

PeopleNext ==
    \E by \in Keys, code \in {"right", "missing"}, k \in Keys :
        \/ \E r \in {"admin", "operator", "auditor"} : CreateUser(by, code, k, r)
        \/ DeleteUser(by, code, k) \/ SetupMfa(by, code, k) \/ DisableMfa(by, code, k)
        \/ \E first \in {"right", "wrong"} : VerifyMfa(by, code, k, first)

DeskNext ==
    \/ \E by \in Keys, code \in {"right", "missing"} :
        \/ \E c \in Contents :
              \/ RefusePolicy(by, code, c)
              \/ \E t \in Threads : WritePolicy(t, by, code, c) \/ WriteFails(t, by, code, c)
        \/ Reload(by, code)
    \/ \E t \in Threads : ComposeEntry(t) \/ AppendEntry(t) \/ AppendFails(t) \/ ReloadSaved(t)

SiemNext ==
    \/ \E by \in Keys, code \in {"right", "missing"}, on \in BOOLEAN :
        UpdateSiem(by, code, on) \/ \E saved \in BOOLEAN : UpdateConfig(by, code, on, saved)
    \/ \E fails \in BOOLEAN : Forward(fails)

Next == PeopleNext \/ DeskNext \/ SiemNext \/ Restart

Spec == Init /\ [][Next]_vars

----------------------------------------------------------------------------
(* Drafting a policy from denied calls: _learn_observe, _draft_rule_lines and
   _draft_field_maps.  A call names an agent, a source and a destination,
   numbers in the order the names are sorted in, 0 when left out, and no agent
   lies below another; args is a function from field names to values
   [kind, n]; calls is what was observed for one tool, in order. *)

Fields(calls) == UNION {DOMAIN c.args : c \in Range(calls)}

(* A field as aggregated: its kind is that of the last value seen. *)
Learned(calls, f) ==
    LET with == SelectSeq(calls, LAMBDA c : f \in DOMAIN c.args)
        of(kind) == {c.args[f].n : c \in {d \in Range(with) : d.args[f].kind = kind}}
    IN  [ kind   |-> Last(with).args[f].kind,
          values |-> of("string"),
          ints   |-> of("int"),
          seen   |-> Len(with) ]

SetMax(S) == CHOOSE x \in S : \A y \in S : y <= x
SetMin(S) == CHOOSE x \in S : \A y \in S : x <= y

(* The headroom of _draft_field_maps: a tenth of the span, at least one. *)
Headroom(l) ==
    LET span == SetMax({SetMax(l.ints) - SetMin(l.ints), 1})
    IN  SetMax({1, span \div 10})

(* _draft_rule_lines: of the agents, the sources and the destinations that were
   named the rule has the first; where none was named, any source and any
   destination will do. *)
Drafted(calls, what) == {c[what] : c \in Range(calls)} \ {0}

(* The rule found for the call, and a caller who leaves its agent out is taken
   for the rule's (PolicyRule.matches, check_tool_call). *)
DraftNames(calls, c) ==
    /\ c.agent # 0 => c.agent = SetMin(Drafted(calls, "agent"))
    /\ \A what \in {"source", "dest"} :
          Drafted(calls, what) # {} => c[what] = SetMin(Drafted(calls, what))

DraftPermits_Tight(calls, c) ==   \* wrong: the least value is taken for the greatest
    /\ DraftNames(calls, c)
    /\ \A f \in Fields(calls) :
          LET l == Learned(calls, f) IN
          l.kind = "int" /\ f \in DOMAIN c.args => c.args[f].n <= SetMin(l.ints)

(* Does the drafted rule permit the call c?  An allow-list and a bound want
   the field present and of their type; the other kinds of field only bind
   when they were in every call. *)
DraftPermits(calls, c) ==
    /\ DraftNames(calls, c)
    /\ \A f \in Fields(calls) :
          LET l == Learned(calls, f)
              always == l.seen >= Len(calls)
              there == f \in DOMAIN c.args
          IN  CASE l.kind = "string" /\ Cardinality(l.values) \in 1..6 ->
                      there /\ c.args[f].kind = "string" /\ c.args[f].n \in l.values
                [] l.kind = "int" ->
                      /\ there /\ c.args[f].kind = "int"
                      /\ c.args[f].n <= SetMax(l.ints) + Headroom(l)
                      /\ SetMin(l.ints) > 0 =>
                            c.args[f].n >= SetMax({0, SetMin(l.ints) - Headroom(l)})
                [] OTHER -> always => there

----------------------------------------------------------------------------
(* Properties *)

(* The ledger of policy changes is valid when nobody touched it, says
   docs/security/ncsc-agent-controls.md:37.  Of saves made in turn it breaks
   exactly where a gateway that found entries at its start appended its first
   one, since the head starts anew, whatever writes and entries fail.  With no
   save under way the last entry names the policy on disk and in force, unless
   the last change of the file has no entry: the write failed half-way, the
   entry could not be written, or the gateway was stopped before it
   (update_policies, _append_policy_ledger, verify_policy_ledger). *)
LedgerInTurn ==
    ~overlapped =>
       /\ VerifyLedger(ledger) <=> restarted \cap DOMAIN ledger = {}
       /\ ledger # <<>> /\ ~unledgered /\ (\A t \in Threads : request[t] = None) =>
             Last(ledger).content = policy /\ inForce = policy

(* What UserManager's docstring promises (gateway.py:498): once its second
   factor is verified a key is let in with a valid code and not without. *)
AsPromised(k, code) == users[k] # None /\ (k \in confirmed => code = "right")

(* The second factor departs from the promise in two ways, and in no other,
   whatever administrators set up, change and delete.  Until a restart the
   owner is locked out, code or not: the code never reaches the check
   (create_admin_app.check_auth).  From the restart on, until the factor is
   verified again, the key alone will do: that it was verified is not
   persisted (_persist_users).  At no time is a confirmed key let in without a
   code by a process that confirmed it. *)
FactorExact ==
    \A k \in Keys, code \in {"right", "missing"} :
       CheckAuth(k, code) # AsPromised(k, code) <=>
          k \in confirmed /\ (k \in forgotten <=> code # "right")

(* What the forwarder does is what the configuration says, unless writing the
   configuration failed once: then not even repeating the update brings them
   together (update_config). *)
ForwarderFollows == ~failedSave => forwarding = config

(* The calls name one source and one destination and at most one agent. *)
Alike(calls) ==
    \A c, d \in Range(calls) :
       c.source = d.source /\ c.dest = d.dest /\ (c.agent = d.agent \/ 0 \in {c.agent, d.agent})

(* Every field had one kind and was in every call. *)
Homogeneous(calls) ==
    \A f \in Fields(calls) : \A c, d \in Range(calls) :
        f \in DOMAIN c.args /\ f \in DOMAIN d.args /\ c.args[f].kind = d.args[f].kind

(* Where every field had one kind and was in every call, a drafted policy
   permits all it was drafted from just when they named the same agent, source
   and destination: of several the rule keeps the first, and the calls of the
   others stay denied.  A field of two kinds, or an optional string, may make
   it deny its own observations too (draft_policy). *)
DraftCovers(calls) ==
    Homogeneous(calls) => ((\A c \in Range(calls) : DraftPermits(calls, c)) <=> Alike(calls))
=============================================================================
