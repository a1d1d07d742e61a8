------------------------------ MODULE Settings ------------------------------
(***************************************************************************)
(* The configuration and its copies.  config.yaml is loaded into the       *)
(* ConfigLoader (src/bilibot/app/config_loader.py); the account's section  *)
(* of it is copied into the AccountConfigRegistry and from there into the  *)
(* running AccountInstance and its Bilibili client (src/bilibot/account).  *)
(*                                                                         *)
(* The panel edits the pages under an optimistic lock, the dedicated       *)
(* routes save the registry, a login by QR code writes the cookie into the *)
(* file, and the client's own refresh writes it into every copy.           *)
(***************************************************************************)
EXTENDS Integers

CONSTANTS
    Editors,        \* browser windows with the configuration page open
    Polls,          \* requests that ask how a login by QR code stands
    MaxWrites,      \* writes of all kinds, each of a value of its own (bound)
    MaxTroubles     \* failed writes and crashes (bound)

VARIABLES
    writes, troubles,
    disk,       \* config.yaml: [rev, page, cred, llm, persona]
    raw,        \* _raw_config of the loader, of the same form
    reg,        \* the registry: [cred, llm, persona]
    acct,       \* account_config of the instance: [cred, llm, persona]
    live,       \* the cookie in the client's headers
    binding,    \* account_personas.json: the persona that speaks
    stale,      \* reload() of the instance is scheduled and has not run
    refresh,    \* the cookie refresh_cookie() is replacing, or None
    form,       \* [Editors -> the page as the window loaded it, or NoForm]
    code,       \* the QR session: [id, status, key, aged]
    lock,       \* _qr_lock is held while the platform makes a code
    poll,       \* [Polls -> [at, id]]
    wanted,     \* history: what was last saved with success
    torn        \* history: a write failed

saved == <<disk, raw>>
copies == <<reg, acct, live>>
login == <<code, lock, poll>>
history == <<wanted, torn>>
vars == <<writes, troubles, saved, copies, binding, stale, refresh, form, login, history>>

None == -1
Options == {"a", "b"}
NoForm == [rev |-> None, page |-> [o \in Options |-> 0]]
Resting == [at |-> "idle", id |-> None]
Terminal == {"none", "confirmed", "expired", "cancelled"}
NoCode == [id |-> 0, status |-> "none", key |-> FALSE, aged |-> FALSE]

Account(config) == [cred |-> config.cred, llm |-> config.llm, persona |-> config.persona]

Init ==
    /\ writes = 0 /\ troubles = 0
    /\ disk = [rev |-> 0, page |-> [o \in Options |-> 0], cred |-> 0, llm |-> 0, persona |-> 0]
    /\ raw = disk
    /\ reg = Account(disk) /\ acct = Account(disk) /\ live = 0
    /\ binding = 0 /\ stale = FALSE /\ refresh = None
    /\ form = [e \in Editors |-> NoForm]
    /\ code = NoCode /\ lock = FALSE /\ poll = [p \in Polls |-> Resting]
    /\ wanted = [page |-> disk.page, llm |-> 0] /\ torn = FALSE

-----------------------------------------------------------------------------
New == writes + 1
Write == writes < MaxWrites /\ writes' = New
Trouble == troubles < MaxTroubles /\ troubles' = troubles + 1
Fails == Trouble /\ torn' = TRUE

\* save_config: written beside the file, moved over it, then loaded.
Save(config) ==
    /\ raw' = [config EXCEPT !.rev = raw.rev + 1]
    /\ disk' = [config EXCEPT !.rev = raw.rev + 1]

\* sync_registry_from_config: the loader's account replaces the registry's and
\* the instance's.
Sync(config) == reg' = Account(config) /\ acct' = Account(config)

\* Faulty variant: whoever saves last wins.
AcceptAny(e) == raw.rev >= form[e].rev

\* The page was loaded at the revision the file still has.
Accept(e) == raw.rev = form[e].rev

OpenPage(e) ==
    /\ form[e] = NoForm
    /\ form' = [form EXCEPT ![e] = [rev |-> raw.rev, page |-> raw.page]]
    /\ UNCHANGED <<writes, troubles, saved, copies, binding, stale, refresh, login, history>>

\* PATCH /api/config: the page is merged over the file under the write lock and
\* the registry follows at once; the instance is reloaded by a task of its own.
Patch(e) ==
    /\ form[e] # NoForm /\ Accept(e) /\ Write
    /\ \E o \in Options :
         LET page == [form[e].page EXCEPT ![o] = New] IN
         /\ Save([raw EXCEPT !.page = page])
         /\ wanted' = [wanted EXCEPT !.page[o] = New]
    /\ Sync(raw) /\ stale' = TRUE
    /\ form' = [form EXCEPT ![e] = NoForm]
    /\ UNCHANGED <<troubles, live, binding, refresh, login, torn>>

\* The revision moved on: 409, and the page is loaded again.
Conflict(e) ==
    /\ form[e] # NoForm /\ ~Accept(e)
    /\ form' = [form EXCEPT ![e] = NoForm]
    /\ UNCHANGED <<writes, troubles, saved, copies, binding, stale, refresh, login, history>>

\* The disk refuses: the loader keeps what it had.
PatchFails(e) ==
    /\ form[e] # NoForm /\ Trouble
    /\ form' = [form EXCEPT ![e] = NoForm]
    /\ UNCHANGED <<writes, saved, copies, binding, stale, refresh, login, history>>

\* AccountInstance.reload: the client is given the instance's cookie.
Reload ==
    /\ stale /\ stale' = FALSE /\ live' = acct.cred
    /\ UNCHANGED <<writes, troubles, saved, reg, acct, binding, refresh, form, login, history>>

-----------------------------------------------------------------------------
\* update_account as it arrives; its body is read, and saved, later.
Arrive ==
    /\ Sync(raw) /\ <<reg, acct>> # <<reg', acct'>>
    /\ UNCHANGED <<writes, troubles, saved, live, binding, stale, refresh, form, login, history>>

\* _save_accounts_to_config writes the whole account out of the registry; a
\* failure is logged and the answer is still that it was saved.
SaveAccount(account) ==
    /\ reg' = account /\ acct' = account
    /\ \/ /\ Save([raw EXCEPT !.cred = account.cred, !.llm = account.llm,
                              !.persona = account.persona])
          /\ wanted' = [wanted EXCEPT !.llm = account.llm]
          /\ UNCHANGED <<troubles, torn>>
       \/ Fails /\ UNCHANGED <<saved, wanted>>

\* bind_llm, and update_account once its body is there.
BindLlm ==
    /\ Write /\ SaveAccount([reg EXCEPT !.llm = New])
    /\ UNCHANGED <<live, binding, stale, refresh, form, login>>

\* switch_persona and bind_persona: the binding, the registry and the file.
BindPersona ==
    /\ Write /\ SaveAccount([reg EXCEPT !.persona = New])
    /\ binding' = New
    /\ UNCHANGED <<live, stale, refresh, form, login>>

\* POST /api/personas/{id}/activate: the binding and the registry.
ActivatePersona ==
    /\ Write
    /\ binding' = New
    /\ reg' = [reg EXCEPT !.persona = New] /\ acct' = [reg EXCEPT !.persona = New]
    /\ UNCHANGED <<troubles, saved, live, stale, refresh, form, login, wanted, torn>>

-----------------------------------------------------------------------------
\* refresh_cookie: what it replaces is read before the platform is asked.
RefreshStart ==
    /\ refresh = None /\ refresh' = live
    /\ UNCHANGED <<writes, troubles, saved, copies, binding, stale, form, login, history>>

\* The client's header, the instance and the registry take the new cookie.
Recorded(cred) ==
    /\ live' = cred
    /\ acct' = [acct EXCEPT !.cred = cred] /\ reg' = [reg EXCEPT !.cred = cred]

\* patch_account_credentials changes the loaded configuration in place, then
\* writes the file.
RefreshDone ==
    /\ refresh # None /\ refresh' = None
    /\ Write /\ Recorded(New)
    /\ \/ Save([raw EXCEPT !.cred = New]) /\ UNCHANGED <<troubles, torn>>
       \/ raw' = [raw EXCEPT !.cred = New] /\ Fails /\ UNCHANGED disk
    /\ UNCHANGED <<binding, stale, form, login, wanted>>

\* Still valid, refused, or unreachable.
RefreshIdle ==
    /\ refresh # None /\ refresh' = None
    /\ UNCHANGED <<writes, troubles, saved, copies, binding, stale, form, login, history>>

-----------------------------------------------------------------------------
Active == code.status \notin Terminal /\ ~code.aged

\* qr_login_init: an old session is dropped and a code is asked for, all under
\* the lock.
AskCode ==
    /\ ~lock /\ ~Active /\ lock' = TRUE /\ Write
    /\ code' = [NoCode EXCEPT !.id = code.id]
    /\ UNCHANGED <<troubles, saved, copies, binding, stale, refresh, form, poll, history>>

GetCode ==
    /\ lock /\ lock' = FALSE
    /\ \/ code' = [id |-> New, status |-> "created", key |-> TRUE, aged |-> FALSE]
       \/ UNCHANGED code
    /\ UNCHANGED <<writes, troubles, saved, copies, binding, stale, refresh, form, poll, history>>

\* _QR_SESSION_TTL has passed.
Age ==
    /\ Active /\ code' = [code EXCEPT !.aged = TRUE]
    /\ UNCHANGED <<writes, troubles, saved, copies, binding, stale, refresh, form, lock, poll, history>>

Ended(status) == [code EXCEPT !.status = status, !.key = FALSE]
Rest(p) == poll' = [poll EXCEPT ![p] = Resting]
Step(p, place) == poll' = [poll EXCEPT ![p].at = place]
Owns(p) == code.id = poll[p].id /\ code.status # "none"

\* qr_login_poll: the session is looked up under the lock, the platform is
\* asked without it.
PollStart(p) ==
    /\ poll[p].at = "idle" /\ ~lock /\ code.status \notin Terminal
    /\ IF code.aged \/ ~code.key
       THEN code' = Ended("expired") /\ UNCHANGED poll
       ELSE poll' = [poll EXCEPT ![p] = [at |-> "asking", id |-> code.id]] /\ UNCHANGED code
    /\ UNCHANGED <<writes, troubles, saved, copies, binding, stale, refresh, form, lock, history>>

\* Waiting to be scanned, or an error.
PollNothing(p) ==
    /\ poll[p].at = "asking" /\ Rest(p)
    /\ UNCHANGED <<writes, troubles, saved, copies, binding, stale, refresh, form, code, lock, history>>

\* Scanned, or expired on the platform; a session that was cancelled while the
\* platform was asked becomes "scanned" all the same.
PollMarks(p) ==
    /\ poll[p].at = "asking" /\ ~lock /\ Rest(p)
    /\ code' \in IF Owns(p) THEN {[code EXCEPT !.status = "scanned"], Ended("expired")}
                 ELSE {code}
    /\ UNCHANGED <<writes, troubles, saved, copies, binding, stale, refresh, form, lock, history>>

\* Confirmed: update_config writes the cookie into the file.
PollSaves(p) ==
    /\ poll[p].at = "asking" /\ Write
    /\ \/ /\ Save([raw EXCEPT !.cred = New]) /\ Step(p, "saved")
          /\ UNCHANGED troubles
       \/ Rest(p) /\ Trouble /\ UNCHANGED saved
    /\ UNCHANGED <<copies, binding, stale, refresh, form, code, lock, history>>

\* Faulty variant: the client keeps its cookie until it is started again.
AdoptLater(p) ==
    /\ poll[p].at = "saved" /\ ~lock /\ Rest(p)
    /\ code' = IF Owns(p) THEN Ended("confirmed") ELSE code
    /\ Sync(raw) /\ UNCHANGED live
    /\ UNCHANGED <<writes, troubles, saved, binding, stale, refresh, form, lock, history>>

\* Under the lock the session ends; then the registry and the client follow.
Adopt(p) ==
    /\ poll[p].at = "saved" /\ ~lock /\ Rest(p)
    /\ code' = IF Owns(p) THEN Ended("confirmed") ELSE code
    /\ Sync(raw) /\ live' = raw.cred
    /\ UNCHANGED <<writes, troubles, saved, binding, stale, refresh, form, lock, history>>

CancelCode ==
    /\ ~lock /\ code.status \notin Terminal
    /\ code' = Ended("cancelled")
    /\ UNCHANGED <<writes, troubles, saved, copies, binding, stale, refresh, form, lock, poll, history>>

-----------------------------------------------------------------------------
\* The process dies and boots: everything is read from the file again, and
\* initialize() binds the persona the file names.
Crash ==
    /\ Trouble
    /\ raw' = disk /\ Sync(disk) /\ live' = disk.cred
    /\ binding' = IF disk.persona = 0 THEN binding ELSE disk.persona
    /\ stale' = FALSE /\ refresh' = None
    /\ code' = NoCode /\ lock' = FALSE /\ poll' = [p \in Polls |-> Resting]
    /\ UNCHANGED <<writes, disk, form, history>>

Panel ==
    \/ \E e \in Editors : OpenPage(e) \/ Patch(e) \/ Conflict(e) \/ PatchFails(e)
    \/ Arrive \/ BindLlm \/ BindPersona \/ ActivatePersona

Login ==
    \/ AskCode \/ GetCode \/ Age \/ CancelCode
    \/ \E p \in Polls :
          PollStart(p) \/ PollNothing(p) \/ PollMarks(p) \/ PollSaves(p) \/ Adopt(p)

Client == RefreshStart \/ RefreshDone \/ RefreshIdle \/ Reload

Next == Panel \/ Login \/ Client \/ Crash
Spec == Init /\ [][Next]_vars

-----------------------------------------------------------------------------
\* No saved edit is undone by a page, an account or a cookie saved later from
\* an older copy (config.py:1641, accounts.py:48, config_loader.py:588).
EditsSurvive ==
    /\ disk.page = wanted.page
    /\ torn \/ disk.llm = wanted.llm

\* Once no login is half way and no reload is due, the file, the registry, the
\* instance and the client hold one cookie and one model, unless a write
\* failed (instance.py:419, manager.py:680).
CopiesAgree ==
    (~torn /\ ~stale /\ \A p \in Polls : poll[p].at # "saved") =>
        /\ disk.cred = raw.cred /\ raw.cred = reg.cred
        /\ reg.cred = acct.cred /\ acct.cred = live
        /\ raw.llm = reg.llm /\ reg.llm = acct.llm

=============================================================================
