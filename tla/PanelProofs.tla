---------------------------- MODULE PanelProofs ----------------------------
(***************************************************************************)
(* Theorems about the panel's models, for any editors, polls, requests and *)
(* bounds.  Settings: a saved edit is not undone, and the copies of the    *)
(* configuration agree.  AccountLife: one loop runs at a time, and what    *)
(* was stopped stays stopped.  ModelRouter: no route leads nowhere, and    *)
(* the memory follows the router.                                          *)
(***************************************************************************)
EXTENDS MCPanel, SequenceTheorems, TLAPS

-----------------------------------------------------------------------------
(* The configuration and its copies.                                       *)

Page == [Copies!Options -> Nat]
Config == [rev : Nat, page : Page, cred : Nat, llm : Nat, persona : Nat]
Section == [cred : Nat, llm : Nat, persona : Nat]
Form == [rev : Nat \cup {Copies!None}, page : Page]
CodeStatus == {"none", "created", "scanned", "confirmed", "expired", "cancelled"}

SettingsTyped ==
    /\ writes \in Nat /\ troubles \in Nat
    /\ disk \in Config /\ raw \in Config
    /\ reg \in Section /\ acct \in Section
    /\ live \in Nat /\ binding \in Nat
    /\ stale \in BOOLEAN /\ lock \in BOOLEAN /\ torn \in BOOLEAN
    /\ refresh \in Nat \cup {Copies!None}
    /\ form \in [Editors -> Form]
    /\ code \in [id : Nat, status : CodeStatus, key : BOOLEAN, aged : BOOLEAN]
    /\ poll \in [Polls -> [at : {"idle", "asking", "saved"}, id : Nat \cup {Copies!None}]]
    /\ wanted \in [page : Page, llm : Nat]

\* The loader has what the file has, but for a cookie whose write failed.
FileLoaded ==
    /\ disk.rev = raw.rev /\ disk.page = raw.page
    /\ ~torn => disk = raw

\* A page loaded at the revision of the file is the page of the file.
FormsFollow ==
    \A e \in Editors : form[e] # Copies!NoForm =>
        /\ form[e].rev \in Nat /\ form[e].rev <= raw.rev
        /\ form[e].rev = raw.rev => form[e].page = raw.page

\* What was last saved is in the file.
Survives ==
    /\ raw.page = wanted.page
    /\ ~torn => raw.llm = wanted.llm

\* The registry and the instance hold one section, and it is the file's, save
\* for a cookie that a poll has written and not adopted; the client lags only
\* behind a reload or such a poll.
NoneSaved == \A p \in Polls : poll[p].at # "saved"
CopiesFollow ==
    /\ reg.cred = acct.cred /\ reg.llm = acct.llm
    /\ ~torn => raw.llm = reg.llm
    /\ (~torn /\ NoneSaved) => raw.cred = reg.cred
    /\ (~torn /\ NoneSaved /\ ~stale) => live = acct.cred

SettingsInv ==
    SettingsTyped /\ FileLoaded /\ FormsFollow /\ Survives /\ CopiesFollow

-----------------------------------------------------------------------------
(* The pools and the routes of the models.                                 *)

Provider == [id : Ids, object : Nat, on : BOOLEAN]
Pools == [Router!Kinds -> Seq(Provider)]
FileFields == {"pool", "route", "fallback", "default", "llm"}
Routed(routes) == routes = [k \in Router!Kinds |-> routes[k]]

RouterTyped ==
    /\ edits \in Nat
    /\ pool \in Pools /\ Routed(route)
    /\ file = [f \in FileFields |-> file[f]]
    /\ file.pool \in Pools /\ Routed(file.route)

\* An identifier has one place in a pool, and a route names one of them.
Named(entries) == {entries[i].id : i \in DOMAIN entries}
Once(entries) == \A i, j \in DOMAIN entries : entries[i].id = entries[j].id => i = j
Leads(pools, routes) ==
    \A k \in Router!Kinds : Once(pools[k]) /\ routes[k] \in Named(pools[k])

\* What a boot would load is what the router has, and both lead somewhere.
FileLeads ==
    ~routerTorn => /\ file.pool = pool
                   /\ Leads(pool, route) /\ Leads(pool, file.route)

RouterInv == RouterTyped /\ FileLeads /\ Router!MemoryFollowsRouter

-----------------------------------------------------------------------------
(* The life of the account's runtime.                                      *)

Stages == {"idle", "client", "brain", "stopping", "draining", "closing"}
LoopRow == [scheduler : Nat, runs : BOOLEAN]

LifeTyped ==
    /\ requests \in Nat /\ lifeTroubles \in Nat /\ made \in Nat /\ made # Life!None
    /\ bare \in BOOLEAN /\ replaced \in SUBSET Nat
    /\ scheduler \in Nat /\ brain \in Nat /\ bili \in Nat
    /\ started \in BOOLEAN /\ overlap \in BOOLEAN
    /\ loops \in Seq(LoopRow) /\ task \in Nat /\ task <= Len(loops)
    /\ open \in SUBSET Nat /\ orphans \in SUBSET Nat
    /\ request \in [Requests -> [at : Stages, made : Nat, loop : Nat]]
    /\ \A r \in Requests : request[r].loop <= Len(loops)

\* The workers the account has lost.
Left == orphans \cup replaced
HasClient == bili # Life!None \/ bare

\* Everything is there that there were credentials for, and no loop runs but the
\* task's; a brain is missing only where a start has replaced another.
Up ==
    /\ scheduler # Life!None /\ brain # Life!None /\ HasClient
    /\ brain \in open \/ replaced # {}
    /\ task # Life!None /\ loops[task].scheduler = scheduler
    /\ Life!Running \subseteq {task} /\ (Life!Alive(task) => started)
    /\ open \subseteq Left \cup {brain}

\* Nothing runs; a client or a brain that did not come up may be left.
Down ==
    /\ scheduler = Life!None /\ task = Life!None
    /\ Life!Running = {} /\ open \subseteq Left

\* What holds while r is under way.
Coming(r) ==
    /\ Up \/ Down
    /\ Life!Running = {} /\ HasClient /\ request[r].made # Life!None
    /\ request[r].at = "brain" => brain = request[r].made
Going(r) ==
    /\ ~started /\ Life!Running \subseteq {task} /\ open \subseteq Left \cup {brain}
    /\ request[r].at = "stopping" => request[r].loop = task
    /\ request[r].at # "stopping" => task = Life!None /\ Life!Running = {}
    /\ request[r].at = "closing" => open \subseteq Left
Stage(r) ==
    /\ request[r].at \in {"client", "brain"} => Coming(r)
    /\ request[r].at \in {"stopping", "draining", "closing"} => Going(r)

Alone == \A r, s \in Life!Busy : r = s

Orderly ==
    ~overlap => Alone /\ (Life!Busy = {} => Up \/ Down) /\ \A r \in Requests : Stage(r)

LifeInv == LifeTyped /\ Orderly

LEMMA SavedConfig ==
    ASSUME NEW c \in Config, raw \in Config, Copies!Save(c)
    PROVE  /\ raw' \in Config /\ disk' = raw' /\ raw'.rev = raw.rev + 1
           /\ raw'.page = c.page /\ raw'.cred = c.cred
           /\ raw'.llm = c.llm /\ raw'.persona = c.persona
  BY DEF Config, Copies!Save

LEMMA SectionOf ==
    ASSUME NEW c \in Config
    PROVE  /\ Copies!Account(c) \in Section
           /\ Copies!Account(c).cred = c.cred /\ Copies!Account(c).llm = c.llm
           /\ Copies!Account(c).persona = c.persona
  BY DEF Config, Section, Copies!Account

LEMMA Written ==
    ASSUME writes \in Nat, Copies!Write
    PROVE  writes' \in Nat /\ Copies!New \in Nat /\ writes' = Copies!New
  BY DEF Copies!Write, Copies!New

LEMMA SettingsStart == Init => SettingsInv
<1> SUFFICES ASSUME Init PROVE SettingsInv
  OBVIOUS
<1> USE DEF Init, Copies!Init
<1>1. disk \in Config /\ raw = disk /\ disk.page = [o \in Copies!Options |-> 0]
      /\ disk.cred = 0 /\ disk.llm = 0 /\ disk.page \in Page
  BY DEF Config, Page
<1>2. reg \in Section /\ acct = reg /\ reg.cred = 0 /\ reg.llm = 0
  BY <1>1, SectionOf
<1>3. Copies!NoForm \in Form /\ Copies!Resting.at = "idle"
      /\ Copies!Resting \in [at : {"idle", "asking", "saved"}, id : Nat \cup {Copies!None}]
  BY DEF Copies!NoForm, Form, Page, Copies!Resting
<1>4. code \in [id : Nat, status : CodeStatus, key : BOOLEAN, aged : BOOLEAN]
  BY DEF Copies!NoCode, CodeStatus
<1>5. wanted \in [page : Page, llm : Nat] /\ wanted.page = disk.page /\ wanted.llm = 0
  BY <1>1
<1>6. SettingsTyped
  BY <1>1, <1>2, <1>3, <1>4, <1>5 DEF SettingsTyped
<1>7. FileLoaded /\ FormsFollow /\ Survives /\ CopiesFollow
  BY <1>1, <1>2, <1>3, <1>5 DEF FileLoaded, FormsFollow, Survives, CopiesFollow
<1> QED BY <1>6, <1>7 DEF SettingsInv

\* What the editors' windows, the polls and the session do without a save.
LEMMA WindowStep ==
    ASSUME SettingsInv, NEW e \in Editors,
           Copies!OpenPage(e) \/ Copies!Conflict(e) \/ Copies!PatchFails(e)
    PROVE  SettingsInv'
<1> USE DEF SettingsInv
<1>1. UNCHANGED <<writes, disk, raw, reg, acct, live, binding, stale, refresh, code, lock, poll,
                  wanted, torn>> /\ troubles' \in Nat
  BY DEF Copies!OpenPage, Copies!Conflict, Copies!PatchFails, Copies!Trouble, Copies!saved,
         Copies!copies, Copies!login, Copies!history, SettingsTyped
<1>2. PICK f \in {Copies!NoForm, [rev |-> raw.rev, page |-> raw.page]} :
        form' = [form EXCEPT ![e] = f]
  BY DEF Copies!OpenPage, Copies!Conflict, Copies!PatchFails
<1>3. f \in Form /\ (f # Copies!NoForm => f.rev = raw.rev /\ f.page = raw.page)
  BY DEF Form, SettingsTyped, Config, Copies!NoForm, Page
<1>4. form' \in [Editors -> Form]
  BY <1>2, <1>3 DEF SettingsTyped
<1>5. SettingsTyped'
  BY <1>1, <1>4 DEF SettingsTyped
<1>6. FormsFollow'
  BY <1>1, <1>2, <1>3 DEF FormsFollow, SettingsTyped, Config
<1>7. FileLoaded' /\ Survives' /\ CopiesFollow'
  BY <1>1 DEF FileLoaded, Survives, CopiesFollow, NoneSaved
<1> QED BY <1>5, <1>6, <1>7

LEMMA PatchStep ==
    ASSUME SettingsInv, NEW e \in Editors, Copies!Patch(e) PROVE SettingsInv'
<1> USE DEF SettingsInv
<1>1. PICK o \in Copies!Options :
        /\ Copies!Save([raw EXCEPT !.page = [form[e].page EXCEPT ![o] = Copies!New]])
        /\ wanted' = [wanted EXCEPT !.page[o] = Copies!New]
  BY DEF Copies!Patch
<1>2. form[e] # Copies!NoForm /\ form[e].rev = raw.rev /\ form[e].page = raw.page
  BY DEF Copies!Patch, Copies!Accept, FormsFollow
<1>3. writes' \in Nat /\ Copies!New \in Nat
  BY Written DEF Copies!Patch, SettingsTyped
<1> DEFINE page == [raw.page EXCEPT ![o] = Copies!New]
           config == [raw EXCEPT !.page = page]
<1>4. raw.page \in Page /\ wanted.page = raw.page
  BY DEF SettingsTyped, Config, Survives
<1>5. page \in Page
  BY <1>3, <1>4 DEF Page
<1>6. config \in Config /\ config.page = page /\ config.cred = raw.cred /\ config.llm = raw.llm
      /\ config.persona = raw.persona
  <2> HIDE DEF page
  <2> QED BY <1>5 DEF SettingsTyped, Config
<1>7. wanted' \in [page : Page, llm : Nat] /\ wanted'.page = page /\ wanted'.llm = wanted.llm
  BY <1>1, <1>3, <1>4, <1>5 DEF SettingsTyped
<1>8. Copies!Save(config)
  BY <1>1, <1>2
<1> HIDE DEF config, page
<1>9. /\ raw' \in Config /\ disk' = raw' /\ raw'.rev = raw.rev + 1
      /\ raw'.page = page /\ raw'.cred = raw.cred /\ raw'.llm = raw.llm
  BY <1>6, <1>8, SavedConfig DEF SettingsTyped
<1>10. /\ reg' = Copies!Account(raw) /\ acct' = reg' /\ stale' = TRUE
       /\ form' = [form EXCEPT ![e] = Copies!NoForm]
       /\ UNCHANGED <<troubles, live, binding, refresh, code, lock, poll, torn>>
  BY DEF Copies!Patch, Copies!Sync, Copies!login
<1>11. raw \in Config
  BY DEF SettingsTyped
<1>12. reg' \in Section /\ reg'.cred = raw.cred /\ reg'.llm = raw.llm
  BY <1>10, <1>11, SectionOf
<1>13. form' \in [Editors -> Form]
  BY <1>10 DEF SettingsTyped, Form, Copies!NoForm, Page
<1>14. SettingsTyped'
  BY <1>3, <1>7, <1>9, <1>10, <1>12, <1>13 DEF SettingsTyped
<1>15. FileLoaded'
  BY <1>9 DEF FileLoaded
<1>16. FormsFollow'
  <2> SUFFICES ASSUME NEW d \in Editors, form'[d] # Copies!NoForm
               PROVE  form'[d].rev \in Nat /\ form'[d].rev < raw'.rev
    BY <1>9, <1>14 DEF FormsFollow, SettingsTyped, Config
  <2>1. form'[d] = form[d] /\ form[d] # Copies!NoForm
    BY <1>10 DEF SettingsTyped
  <2>2. form[d].rev \in Nat /\ form[d].rev <= raw.rev /\ raw.rev \in Nat
    BY <2>1 DEF FormsFollow, SettingsTyped, Config
  <2> QED BY <2>1, <2>2, <1>9
<1>17. Survives'
  BY <1>7, <1>9, <1>10 DEF Survives
<1>18. CopiesFollow'
  BY <1>9, <1>10, <1>12 DEF CopiesFollow, NoneSaved
<1> QED BY <1>14, <1>15, <1>16, <1>17, <1>18

\* A save that leaves the page alone: every loaded page is of an older revision.
LEMMA PagesLeft ==
    ASSUME SettingsInv, raw' \in Config, form' = form, raw'.page = raw.page,
           raw'.rev \in {raw.rev, raw.rev + 1}
    PROVE  FormsFollow'
<1> SUFFICES ASSUME NEW e \in Editors, form[e] # Copies!NoForm
             PROVE  /\ form[e].rev \in Nat /\ form[e].rev <= raw'.rev
                    /\ form[e].rev = raw'.rev => form[e].page = raw'.page
  BY DEF FormsFollow
<1>1. form[e].rev \in Nat /\ form[e].rev <= raw.rev /\ raw.rev \in Nat
      /\ (form[e].rev = raw.rev => form[e].page = raw.page)
  BY DEF SettingsInv, FormsFollow, SettingsTyped, Config
<1> QED BY <1>1

\* _save_accounts_to_config of a section that has the registry's cookie.
LEMMA AccountSaved ==
    ASSUME SettingsInv, NEW a \in Section, a.cred = reg.cred,
           Copies!Write, Copies!SaveAccount(a), binding' \in Nat,
           UNCHANGED <<live, stale, refresh, form, code, lock, poll>>
    PROVE  SettingsInv'
<1> USE DEF SettingsInv
<1>1. writes' \in Nat
  BY Written DEF SettingsTyped
<1>2. reg' = a /\ acct' = a
  BY DEF Copies!SaveAccount
<1> DEFINE config == [raw EXCEPT !.cred = a.cred, !.llm = a.llm, !.persona = a.persona]
<1>3. raw \in Config
  BY DEF SettingsTyped
<1>4. config \in Config /\ config.cred = a.cred /\ config.llm = a.llm /\ config.page = raw.page
  BY <1>3 DEF Config, Section
<1>5. \/ Copies!Save(config) /\ wanted' = [wanted EXCEPT !.llm = a.llm]
         /\ UNCHANGED <<troubles, torn>>
      \/ Copies!Fails /\ UNCHANGED <<disk, raw, wanted>>
  BY DEF Copies!SaveAccount, Copies!saved
<1> HIDE DEF config
<1>6. CASE Copies!Save(config) /\ wanted' = [wanted EXCEPT !.llm = a.llm]
           /\ UNCHANGED <<troubles, torn>>
  <2>1. /\ raw' \in Config /\ disk' = raw' /\ raw'.rev = raw.rev + 1 /\ raw'.page = raw.page
        /\ raw'.cred = a.cred /\ raw'.llm = a.llm
    BY <1>3, <1>4, <1>6, SavedConfig
  <2>2. wanted' \in [page : Page, llm : Nat] /\ wanted'.page = wanted.page /\ wanted'.llm = a.llm
    BY <1>6 DEF SettingsTyped, Section
  <2>3. SettingsTyped'
    BY <1>1, <1>2, <1>6, <2>1, <2>2 DEF SettingsTyped
  <2>4. FormsFollow'
    BY <2>1, PagesLeft
  <2>5. FileLoaded' /\ Survives' /\ CopiesFollow'
    BY <1>2, <1>6, <2>1, <2>2 DEF FileLoaded, Survives, CopiesFollow, NoneSaved
  <2> QED BY <2>3, <2>4, <2>5
<1>7. CASE Copies!Fails /\ UNCHANGED <<disk, raw, wanted>>
  <2>1. troubles' \in Nat /\ torn' = TRUE
    BY <1>7 DEF Copies!Fails, Copies!Trouble, SettingsTyped
  <2>2. SettingsTyped'
    BY <1>1, <1>2, <1>7, <2>1 DEF SettingsTyped
  <2>3. FormsFollow'
    BY <1>3, <1>7, PagesLeft
  <2>4. FileLoaded' /\ Survives' /\ CopiesFollow'
    BY <1>2, <1>7, <2>1 DEF FileLoaded, Survives, CopiesFollow
  <2> QED BY <2>2, <2>3, <2>4
<1> QED BY <1>5, <1>6, <1>7

LEMMA BindStep ==
    ASSUME SettingsInv, Copies!BindLlm \/ Copies!BindPersona PROVE SettingsInv'
<1>1. reg \in Section /\ binding \in Nat /\ Copies!New \in Nat
  BY DEF SettingsInv, SettingsTyped, Copies!New
<1>2. CASE Copies!BindLlm
  <2> DEFINE a == [reg EXCEPT !.llm = Copies!New]
  <2>1. a \in Section /\ a.cred = reg.cred
    BY <1>1 DEF Section
  <2>2. Copies!Write /\ Copies!SaveAccount(a) /\ binding' = binding
        /\ UNCHANGED <<live, stale, refresh, form, code, lock, poll>>
    BY <1>2 DEF Copies!BindLlm, Copies!login
  <2> HIDE DEF a
  <2> QED BY <1>1, <2>1, <2>2, AccountSaved
<1>3. CASE Copies!BindPersona
  <2> DEFINE a == [reg EXCEPT !.persona = Copies!New]
  <2>1. a \in Section /\ a.cred = reg.cred
    BY <1>1 DEF Section
  <2>2. Copies!Write /\ Copies!SaveAccount(a) /\ binding' = Copies!New
        /\ UNCHANGED <<live, stale, refresh, form, code, lock, poll>>
    BY <1>3 DEF Copies!BindPersona, Copies!login
  <2> HIDE DEF a
  <2> QED BY <1>1, <2>1, <2>2, AccountSaved
<1> QED BY <1>2, <1>3

LEMMA ActivateStep ==
    ASSUME SettingsInv, Copies!ActivatePersona PROVE SettingsInv'
<1> USE DEF SettingsInv
<1>1. /\ writes' \in Nat /\ Copies!New \in Nat /\ binding' = Copies!New
      /\ reg' = [reg EXCEPT !.persona = Copies!New] /\ acct' = [reg EXCEPT !.persona = Copies!New]
      /\ UNCHANGED <<troubles, disk, raw, live, stale, refresh, form, code, lock, poll, wanted,
                     torn>>
  BY Written DEF Copies!ActivatePersona, SettingsTyped, Copies!saved, Copies!login
<1>2. reg' \in Section /\ acct' = reg' /\ reg'.cred = reg.cred /\ reg'.llm = reg.llm
  BY <1>1 DEF SettingsTyped, Section
<1>3. SettingsTyped'
  BY <1>1, <1>2 DEF SettingsTyped
<1>4. FileLoaded' /\ FormsFollow' /\ Survives' /\ CopiesFollow'
  BY <1>1, <1>2 DEF FileLoaded, FormsFollow, Survives, CopiesFollow, NoneSaved
<1> QED BY <1>3, <1>4

LEMMA ArriveStep ==
    ASSUME SettingsInv, Copies!Arrive PROVE SettingsInv'
<1> USE DEF SettingsInv
<1>1. /\ reg' = Copies!Account(raw) /\ acct' = Copies!Account(raw)
      /\ UNCHANGED <<writes, troubles, disk, raw, live, binding, stale, refresh, form, code, lock,
                     poll, wanted, torn>>
  BY DEF Copies!Arrive, Copies!Sync, Copies!saved, Copies!login, Copies!history
<1>2. reg' \in Section /\ acct' = reg' /\ reg'.cred = raw.cred /\ reg'.llm = raw.llm
  BY <1>1, SectionOf DEF SettingsTyped
<1>3. SettingsTyped'
  BY <1>1, <1>2 DEF SettingsTyped
<1>4. FileLoaded' /\ FormsFollow' /\ Survives' /\ CopiesFollow'
  BY <1>1, <1>2 DEF FileLoaded, FormsFollow, Survives, CopiesFollow, NoneSaved
<1> QED BY <1>3, <1>4

LEMMA ReloadStep ==
    ASSUME SettingsInv, Copies!Reload PROVE SettingsInv'
<1> USE DEF SettingsInv
<1>1. /\ stale' = FALSE /\ live' = acct.cred
      /\ UNCHANGED <<writes, troubles, disk, raw, reg, acct, binding, refresh, form, code, lock,
                     poll, wanted, torn>>
  BY DEF Copies!Reload, Copies!saved, Copies!login, Copies!history
<1>2. SettingsTyped'
  BY <1>1 DEF SettingsTyped, Section
<1>3. FileLoaded' /\ FormsFollow' /\ Survives' /\ CopiesFollow'
  BY <1>1 DEF FileLoaded, FormsFollow, Survives, CopiesFollow, NoneSaved
<1> QED BY <1>2, <1>3

LEMMA RefreshDoneStep ==
    ASSUME SettingsInv, Copies!RefreshDone PROVE SettingsInv'
<1> USE DEF SettingsInv
<1>1. /\ writes' \in Nat /\ Copies!New \in Nat /\ live' = Copies!New
      /\ acct' = [acct EXCEPT !.cred = Copies!New] /\ reg' = [reg EXCEPT !.cred = Copies!New]
      /\ refresh' = Copies!None
      /\ UNCHANGED <<binding, stale, form, code, lock, poll, wanted>>
  BY Written DEF Copies!RefreshDone, SettingsTyped, Copies!Recorded, Copies!login
<1>2. /\ reg' \in Section /\ reg'.cred = Copies!New /\ reg'.llm = reg.llm
      /\ acct' \in Section /\ acct'.cred = Copies!New /\ acct'.llm = acct.llm
  BY <1>1 DEF SettingsTyped, Section
<1> DEFINE config == [raw EXCEPT !.cred = Copies!New]
<1>3. raw \in Config
  BY DEF SettingsTyped
<1>4. /\ config \in Config /\ config.cred = Copies!New /\ config.llm = raw.llm
      /\ config.page = raw.page /\ config.rev = raw.rev
  BY <1>1, <1>3 DEF Config
<1>5. \/ Copies!Save(config) /\ UNCHANGED <<troubles, torn>>
      \/ raw' = config /\ Copies!Fails /\ UNCHANGED disk
  BY DEF Copies!RefreshDone
<1> HIDE DEF config
<1>6. CASE Copies!Save(config) /\ UNCHANGED <<troubles, torn>>
  <2>1. /\ raw' \in Config /\ disk' = raw' /\ raw'.rev = raw.rev + 1 /\ raw'.page = raw.page
        /\ raw'.cred = Copies!New /\ raw'.llm = raw.llm
    BY <1>3, <1>4, <1>6, SavedConfig
  <2>2. SettingsTyped'
    BY <1>1, <1>2, <1>6, <2>1 DEF SettingsTyped
  <2>3. FormsFollow'
    BY <1>1, <2>1, PagesLeft
  <2>4. FileLoaded' /\ Survives' /\ CopiesFollow'
    BY <1>1, <1>2, <1>6, <2>1 DEF FileLoaded, Survives, CopiesFollow, NoneSaved
  <2> QED BY <2>2, <2>3, <2>4
<1>7. CASE raw' = config /\ Copies!Fails /\ UNCHANGED disk
  <2>1. troubles' \in Nat /\ torn' = TRUE
    BY <1>7 DEF Copies!Fails, Copies!Trouble, SettingsTyped
  <2>2. SettingsTyped'
    BY <1>1, <1>2, <1>4, <1>7, <2>1 DEF SettingsTyped
  <2>3. FormsFollow'
    BY <1>1, <1>4, <1>7, PagesLeft
  <2>4. FileLoaded' /\ Survives' /\ CopiesFollow'
    BY <1>1, <1>2, <1>4, <1>7, <2>1 DEF FileLoaded, Survives, CopiesFollow
  <2> QED BY <2>2, <2>3, <2>4
<1> QED BY <1>5, <1>6, <1>7

LEMMA RefreshOtherStep ==
    ASSUME SettingsInv, Copies!RefreshStart \/ Copies!RefreshIdle PROVE SettingsInv'
<1> USE DEF SettingsInv
<1>1. /\ refresh' \in Nat \cup {Copies!None}
      /\ UNCHANGED <<writes, troubles, disk, raw, reg, acct, live, binding, stale, form, code, lock,
                     poll, wanted, torn>>
  BY DEF Copies!RefreshStart, Copies!RefreshIdle, Copies!saved, Copies!copies, Copies!login,
         Copies!history, SettingsTyped
<1>2. SettingsTyped'
  BY <1>1 DEF SettingsTyped
<1>3. FileLoaded' /\ FormsFollow' /\ Survives' /\ CopiesFollow'
  BY <1>1 DEF FileLoaded, FormsFollow, Survives, CopiesFollow, NoneSaved
<1> QED BY <1>2, <1>3

PollRow == [at : {"idle", "asking", "saved"}, id : Nat \cup {Copies!None}]
CodeRow == [id : Nat, status : CodeStatus, key : BOOLEAN, aged : BOOLEAN]

\* The session and the polls change; no poll comes to hold, or drops, a cookie
\* that is saved and not adopted.
LEMMA LoginQuiet ==
    ASSUME SettingsInv, writes' \in Nat, code' \in CodeRow, lock' \in BOOLEAN,
           poll' \in [Polls -> PollRow],
           \A p \in Polls : poll[p].at = "saved" => poll'[p].at = "saved",
           UNCHANGED <<troubles, disk, raw, reg, acct, live, binding, stale, refresh, form,
                       wanted, torn>>
    PROVE  SettingsInv'
<1> USE DEF SettingsInv
<1>1. SettingsTyped'
  BY DEF SettingsTyped, CodeRow, PollRow
<1>2. FileLoaded' /\ FormsFollow' /\ Survives' /\ CopiesFollow'
  BY DEF FileLoaded, FormsFollow, Survives, CopiesFollow, NoneSaved
<1> QED BY <1>1, <1>2

LEMMA EndedCode ==
    ASSUME code \in CodeRow, NEW s \in CodeStatus
    PROVE  Copies!Ended(s) \in CodeRow
  BY DEF CodeRow, Copies!Ended

LEMMA SessionStep ==
    ASSUME SettingsInv,
           Copies!AskCode \/ Copies!GetCode \/ Copies!Age \/ Copies!CancelCode
    PROVE  SettingsInv'
<1>1. /\ writes \in Nat /\ code \in CodeRow /\ lock \in BOOLEAN /\ poll \in [Polls -> PollRow]
      /\ Copies!New \in Nat
  BY DEF SettingsInv, SettingsTyped, CodeRow, PollRow, Copies!New
<1>2. /\ UNCHANGED <<troubles, disk, raw, reg, acct, live, binding, stale, refresh, form, poll,
                     wanted, torn>>
      /\ lock' \in BOOLEAN /\ writes' \in Nat
  BY <1>1, Written DEF Copies!AskCode, Copies!GetCode, Copies!Age, Copies!CancelCode,
     Copies!saved, Copies!copies, Copies!history
<1>3. code' \in CodeRow
  <2>1. CASE Copies!AskCode
    BY <1>1, <2>1 DEF Copies!AskCode, Copies!NoCode, CodeRow, CodeStatus
  <2>2. CASE Copies!GetCode
    <3>1. [id |-> Copies!New, status |-> "created", key |-> TRUE, aged |-> FALSE] \in CodeRow
      BY <1>1 DEF CodeRow, CodeStatus
    <3> QED BY <1>1, <2>2, <3>1 DEF Copies!GetCode
  <2>3. CASE Copies!Age
    BY <1>1, <2>3 DEF Copies!Age, CodeRow
  <2>4. CASE Copies!CancelCode
    BY <1>1, <2>4, EndedCode DEF Copies!CancelCode, CodeStatus
  <2> QED BY <2>1, <2>2, <2>3, <2>4
<1> QED BY <1>1, <1>2, <1>3, LoginQuiet

LEMMA PollQuietStep ==
    ASSUME SettingsInv, NEW p \in Polls,
           Copies!PollStart(p) \/ Copies!PollNothing(p) \/ Copies!PollMarks(p)
    PROVE  SettingsInv'
<1>1. /\ writes \in Nat /\ code \in CodeRow /\ lock \in BOOLEAN /\ poll \in [Polls -> PollRow]
  BY DEF SettingsInv, SettingsTyped, CodeRow, PollRow
<1>2. UNCHANGED <<writes, troubles, disk, raw, reg, acct, live, binding, stale, refresh, form, lock,
                  wanted, torn>>
  BY DEF Copies!PollStart, Copies!PollNothing, Copies!PollMarks, Copies!saved, Copies!copies,
     Copies!history
<1>3. code' \in CodeRow
  <2>1. Copies!Ended("expired") \in CodeRow /\ [code EXCEPT !.status = "scanned"] \in CodeRow
    BY <1>1, EndedCode DEF CodeStatus, CodeRow
  <2>2. CASE Copies!PollStart(p)
    BY <1>1, <2>1, <2>2 DEF Copies!PollStart
  <2>3. CASE Copies!PollNothing(p)
    BY <1>1, <2>3 DEF Copies!PollNothing
  <2>4. CASE Copies!PollMarks(p)
    BY <1>1, <2>1, <2>4 DEF Copies!PollMarks
  <2> QED BY <2>2, <2>3, <2>4
<1>4. poll[p].at # "saved"
  BY DEF Copies!PollStart, Copies!PollNothing, Copies!PollMarks
<1>5. PICK q \in PollRow : poll' = [poll EXCEPT ![p] = q]
  <2>1. Copies!Resting \in PollRow
    BY DEF Copies!Resting, PollRow
  <2>2. [at |-> "asking", id |-> code.id] \in PollRow
    BY <1>1 DEF PollRow, CodeRow
  <2>3. poll[p] \in PollRow /\ poll = [poll EXCEPT ![p] = poll[p]]
    BY <1>1
  <2>4. CASE Copies!PollStart(p)
    BY <2>2, <2>3, <2>4 DEF Copies!PollStart
  <2>5. CASE Copies!PollNothing(p) \/ Copies!PollMarks(p)
    BY <2>1, <2>5 DEF Copies!PollNothing, Copies!PollMarks, Copies!Rest
  <2> QED BY <2>4, <2>5
<1>6. poll' \in [Polls -> PollRow] /\ \A o \in Polls : poll[o].at = "saved" => poll'[o].at = "saved"
  BY <1>1, <1>4, <1>5
<1> QED BY <1>1, <1>2, <1>3, <1>6, LoginQuiet

\* The cookie goes into the file, and the poll is to adopt it.
LEMMA PollSavesStep ==
    ASSUME SettingsInv, NEW p \in Polls, Copies!PollSaves(p) PROVE SettingsInv'
<1> USE DEF SettingsInv
<1>1. /\ writes' \in Nat /\ Copies!New \in Nat /\ poll[p].at = "asking"
      /\ UNCHANGED <<reg, acct, live, binding, stale, refresh, form, code, lock, wanted, torn>>
  BY Written DEF Copies!PollSaves, SettingsTyped, Copies!copies, Copies!history
<1>2. poll \in [Polls -> PollRow] /\ raw \in Config
  BY DEF SettingsTyped, PollRow
<1> DEFINE config == [raw EXCEPT !.cred = Copies!New]
<1>3. /\ config \in Config /\ config.llm = raw.llm /\ config.page = raw.page
  BY <1>1, <1>2 DEF Config
<1>4. \/ Copies!Save(config) /\ Copies!Step(p, "saved") /\ UNCHANGED troubles
      \/ Copies!Rest(p) /\ Copies!Trouble /\ UNCHANGED <<disk, raw>>
  BY DEF Copies!PollSaves, Copies!saved
<1> HIDE DEF config
<1>5. CASE Copies!Save(config) /\ Copies!Step(p, "saved") /\ UNCHANGED troubles
  <2>1. /\ raw' \in Config /\ disk' = raw' /\ raw'.rev = raw.rev + 1 /\ raw'.page = raw.page
        /\ raw'.llm = raw.llm
    BY <1>2, <1>3, <1>5, SavedConfig
  <2>2. poll' \in [Polls -> PollRow] /\ poll'[p].at = "saved"
    BY <1>2, <1>5 DEF Copies!Step, PollRow
  <2>3. SettingsTyped'
    BY <1>1, <1>5, <2>1, <2>2 DEF SettingsTyped, PollRow
  <2>4. FormsFollow'
    BY <1>1, <2>1, PagesLeft
  <2>5. ~NoneSaved'
    BY <2>2 DEF NoneSaved
  <2>6. FileLoaded' /\ Survives' /\ CopiesFollow'
    BY <1>1, <2>1, <2>5 DEF FileLoaded, Survives, CopiesFollow
  <2> QED BY <2>3, <2>4, <2>6
<1>6. CASE Copies!Rest(p) /\ Copies!Trouble /\ UNCHANGED <<disk, raw>>
  <2>1. troubles' \in Nat
    BY <1>6 DEF Copies!Trouble, SettingsTyped
  <2>2. poll' \in [Polls -> PollRow]
        /\ \A o \in Polls : poll[o].at = "saved" => poll'[o].at = "saved"
    BY <1>1, <1>2, <1>6 DEF Copies!Rest, Copies!Resting, PollRow
  <2>3. SettingsTyped'
    BY <1>1, <1>6, <2>1, <2>2 DEF SettingsTyped, PollRow
  <2>4. FileLoaded' /\ FormsFollow' /\ Survives' /\ CopiesFollow'
    BY <1>1, <1>6, <2>2 DEF FileLoaded, FormsFollow, Survives, CopiesFollow, NoneSaved
  <2> QED BY <2>3, <2>4
<1> QED BY <1>4, <1>5, <1>6

LEMMA AdoptStep ==
    ASSUME SettingsInv, NEW p \in Polls, Copies!Adopt(p) PROVE SettingsInv'
<1> USE DEF SettingsInv
<1>1. /\ reg' = Copies!Account(raw) /\ acct' = reg' /\ live' = raw.cred
      /\ UNCHANGED <<writes, troubles, disk, raw, binding, stale, refresh, form, lock, wanted,
                     torn>>
  BY DEF Copies!Adopt, Copies!Sync, Copies!saved, Copies!history
<1>2. raw \in Config /\ raw.cred \in Nat /\ code \in CodeRow /\ poll \in [Polls -> PollRow]
  BY DEF SettingsTyped, Config, CodeRow, PollRow
<1>3. reg' \in Section /\ reg'.cred = raw.cred /\ reg'.llm = raw.llm
  BY <1>1, <1>2, SectionOf
<1>4. code' \in CodeRow
  BY <1>2, EndedCode DEF Copies!Adopt, CodeStatus
<1>5. poll' \in [Polls -> PollRow]
  BY <1>2 DEF Copies!Adopt, Copies!Rest, Copies!Resting, PollRow
<1>6. SettingsTyped'
  BY <1>1, <1>2, <1>3, <1>4, <1>5 DEF SettingsTyped, CodeRow, PollRow
<1>7. FileLoaded' /\ FormsFollow' /\ Survives' /\ CopiesFollow'
  BY <1>1, <1>3 DEF FileLoaded, FormsFollow, Survives, CopiesFollow
<1> QED BY <1>6, <1>7

\* After a crash everything is read from the file.
LEMMA CrashStep ==
    ASSUME SettingsInv, Copies!Crash PROVE SettingsInv'
<1> USE DEF SettingsInv
<1>1. /\ troubles' \in Nat /\ raw' = disk /\ reg' = Copies!Account(disk) /\ acct' = reg'
      /\ live' = disk.cred /\ stale' = FALSE /\ refresh' = Copies!None
      /\ code' = Copies!NoCode /\ lock' = FALSE /\ poll' = [p \in Polls |-> Copies!Resting]
      /\ UNCHANGED <<writes, disk, form, wanted, torn>>
  BY DEF Copies!Crash, Copies!Trouble, Copies!Sync, Copies!history, SettingsTyped
<1>2. disk \in Config /\ disk.cred \in Nat /\ binding' \in Nat
  BY DEF Copies!Crash, SettingsTyped, Config
<1>3. reg' \in Section /\ reg'.cred = disk.cred /\ reg'.llm = disk.llm
  BY <1>1, <1>2, SectionOf
<1>4. code' \in CodeRow /\ poll' \in [Polls -> PollRow]
  BY <1>1 DEF Copies!NoCode, Copies!Resting, CodeRow, PollRow, CodeStatus
<1>5. SettingsTyped'
  BY <1>1, <1>2, <1>3, <1>4 DEF SettingsTyped, CodeRow, PollRow
<1>6. FormsFollow'
  BY <1>1, <1>2, PagesLeft DEF FileLoaded
<1>7. FileLoaded' /\ Survives' /\ CopiesFollow'
  BY <1>1, <1>3 DEF FileLoaded, Survives, CopiesFollow
<1> QED BY <1>5, <1>6, <1>7

LEMMA SettingsStep == ASSUME SettingsInv, Copies!Next PROVE SettingsInv'
<1>1. CASE Copies!Panel
  BY <1>1, WindowStep, PatchStep, ArriveStep, BindStep, ActivateStep DEF Copies!Panel
<1>2. CASE Copies!Login
  BY <1>2, SessionStep, PollQuietStep, PollSavesStep, AdoptStep DEF Copies!Login
<1>3. CASE Copies!Client
  BY <1>3, RefreshOtherStep, RefreshDoneStep, ReloadStep DEF Copies!Client
<1> QED BY <1>1, <1>2, <1>3, CrashStep DEF Copies!Next

LEMMA SettingsLeft == ASSUME SettingsInv, UNCHANGED settingVars PROVE SettingsInv'
  BY DEF settingVars, SettingsInv, SettingsTyped, FileLoaded, FormsFollow, Survives, CopiesFollow,
         NoneSaved

LEMMA SettingsKept == Spec => []SettingsInv
<1>1. ASSUME SettingsInv, [Next]_vars PROVE SettingsInv'
  <2>1. CASE RunSettings
    BY <1>1, <2>1, SettingsStep DEF RunSettings
  <2>2. CASE RunLife \/ RunRouter \/ UNCHANGED vars
    BY <1>1, <2>2, SettingsLeft DEF RunLife, RunRouter, vars
  <2> QED BY <1>1, <2>1, <2>2 DEF Next
<1> QED BY <1>1, SettingsStart, PTL DEF Spec

\* No edit that was saved is undone by one saved later from an older copy,
\* however windows, requests, logins, refreshes, failed writes and crashes
\* interleave: config.py:1641 refuses a page of an older revision, and the
\* account's writers leave the page alone.
THEOREM EditsSurviveAlways == Spec => []EditsSurvive
<1>1. SettingsInv => EditsSurvive
  BY DEF SettingsInv, FileLoaded, Survives, EditsSurvive, Copies!EditsSurvive
<1> QED BY <1>1, SettingsKept, PTL

\* Once no login is half way, no reload is due and no write has failed, the
\* file, the loader, the registry, the instance and the client agree.
THEOREM CopiesAgreeAlways == Spec => []CopiesAgree
<1>1. SettingsInv => CopiesAgree
  BY DEF SettingsInv, FileLoaded, CopiesFollow, NoneSaved, CopiesAgree, Copies!CopiesAgree
<1> QED BY <1>1, SettingsKept, PTL

RequestRow == [at : Stages, made : Nat, loop : Nat]

LEMMA LifeStart == Init => LifeInv
<1> SUFFICES ASSUME Init PROVE LifeInv
  OBVIOUS
<1> DEFINE up == /\ scheduler = 1 /\ brain = 1 /\ bili \in {1, 0} /\ task = 1 /\ started = TRUE
                 /\ loops = <<[scheduler |-> 1, runs |-> TRUE]>> /\ open = {1}
           down == /\ scheduler = 0 /\ brain = 0 /\ bili = 0 /\ task = 0 /\ started = FALSE
                   /\ loops = <<>> /\ open = {}
<1>1. /\ requests = 0 /\ lifeTroubles = 0 /\ made = 1
      /\ up \/ down
      /\ request = [r \in Requests |-> [at |-> "idle", made |-> 0, loop |-> 0]]
      /\ overlap = FALSE /\ orphans = {} /\ replaced = {}
  BY DEF Init, Life!Init, Life!Resting, Life!None
<1>0. bare = (scheduler # Life!None /\ bili = Life!None)
  BY DEF Init, Life!Init
<1>2. /\ loops \in Seq(LoopRow) /\ task \in Nat /\ task <= Len(loops) /\ Len(loops) \in Nat
      /\ scheduler \in Nat /\ brain \in Nat /\ bili \in Nat /\ started \in BOOLEAN
      /\ open \in SUBSET Nat
  <2>1. CASE up
    <3>1. [scheduler |-> 1, runs |-> TRUE] \in LoopRow
      BY DEF LoopRow
    <3> QED BY <2>1, <3>1
  <2>2. CASE down
    <3>1. loops = <<>> /\ <<>> \in Seq(LoopRow) /\ Len(<<>>) = 0
      BY <2>2
    <3>2. started \in BOOLEAN /\ open \in SUBSET Nat
      BY <2>2
    <3>3. loops \in Seq(LoopRow) /\ Len(loops) = 0
      BY <3>1
    <3> QED BY <2>2, <3>2, <3>3
  <2> QED BY <1>1, <2>1, <2>2
<1>3. LifeTyped
  <2>1. /\ request \in [Requests -> [at : Stages, made : Nat, loop : Nat]]
        /\ \A r \in Requests : request[r].loop <= Len(loops)
    BY <1>1, <1>2 DEF Stages
  <2>2. /\ requests \in Nat /\ lifeTroubles \in Nat /\ made \in Nat /\ made # Life!None
        /\ overlap \in BOOLEAN
    <3> HIDE DEF up, down
    <3>1. requests = 0 /\ lifeTroubles = 0 /\ made = 1
      BY <1>1
    <3>2. overlap \in BOOLEAN
      BY <1>1, Zenon
    <3> QED BY <3>1, <3>2 DEF Life!None
  <2>3. orphans \in SUBSET Nat /\ replaced \in SUBSET Nat
    BY <1>1, Zenon
  <2>4. bare \in BOOLEAN
    BY <1>0
  <2> HIDE DEF up, down
  <2> QED BY <1>2, <2>1, <2>2, <2>3, <2>4 DEF LifeTyped
<1>4. Life!Busy = {}
  BY <1>1 DEF Life!Busy
<1>5. Up \/ Down
  <2>1. CASE up
    <3>1. loops[1] = [scheduler |-> 1, runs |-> TRUE] /\ DOMAIN loops = {1}
      BY <2>1
    <3>2. scheduler # Life!None /\ brain # Life!None /\ brain = 1 /\ task = 1
      BY <2>1 DEF Life!None
    <3>3. started = TRUE /\ Life!Running \subseteq {task} /\ open \subseteq {brain}
      BY <2>1, <3>1 DEF Life!Running
    <3>4. HasClient
      BY <1>0, <3>2 DEF HasClient
    <3>5. loops[task].scheduler = scheduler
      BY <2>1, <3>1
    <3> QED BY <2>1, <3>2, <3>3, <3>4, <3>5 DEF Up, Left
  <2>2. CASE down
    BY <1>1, <2>2 DEF Down, Left, Life!Running, Life!None
  <2> QED BY <1>1, <2>1, <2>2
<1>6. \A r \in Requests : Stage(r)
  BY <1>1 DEF Stage
<1> QED BY <1>3, <1>4, <1>5, <1>6 DEF LifeInv, Orderly, Alone

\* A step of the one request under way, or of the first to arrive, keeps order
\* if it leaves that request at a proper stage.
LEMMA OneMoves ==
    ASSUME LifeTyped, NEW r \in Requests, ~overlap' => Life!Busy \subseteq {r},
           NEW q \in RequestRow, request' = [request EXCEPT ![r] = q],
           (~overlap' /\ q.at = "idle") => (Up \/ Down)',
           (~overlap' /\ q.at # "idle") => Stage(r)'
    PROVE  Orderly'
<1> SUFFICES ASSUME ~overlap'
             PROVE  Alone' /\ (Life!Busy' = {} => Up' \/ Down')
                    /\ \A s \in Requests : Stage(s)'
  BY DEF Orderly
<1>1. request \in [Requests -> RequestRow] /\ request'[r] = q
  BY DEF LifeTyped, RequestRow
<1>2. \A s \in Requests : s # r => request'[s].at = "idle"
  BY <1>1 DEF Life!Busy
<1>3. Alone'
  BY <1>2 DEF Alone, Life!Busy
<1>4. q.at # "idle" => r \in Life!Busy'
  BY <1>1 DEF Life!Busy
<1>5. ASSUME NEW s \in Requests PROVE Stage(s)'
  <2>1. CASE request'[s].at = "idle"
    BY <2>1 DEF Stage
  <2>2. CASE request'[s].at # "idle"
    <3>1. s = r /\ q.at # "idle"
      BY <1>1, <1>2, <2>2
    <3> QED BY <3>1
  <2> QED BY <2>1, <2>2
<1> QED BY <1>3, <1>4, <1>5

LEMMA Appended ==
    ASSUME loops \in Seq(LoopRow), NEW row \in LoopRow, loops' = Append(loops, row)
    PROVE  /\ loops' \in Seq(LoopRow) /\ Len(loops') = Len(loops) + 1 /\ Len(loops) \in Nat
           /\ loops'[Len(loops) + 1] = row
           /\ \A l \in DOMAIN loops : loops'[l] = loops[l]
           /\ DOMAIN loops' = DOMAIN loops \cup {Len(loops) + 1}
<1>1. DOMAIN loops = 1 .. Len(loops) /\ Len(loops) \in Nat
  OBVIOUS
<1>2. loops' \in Seq(LoopRow) /\ Len(loops') = Len(loops) + 1
  BY <1>1
<1>3. DOMAIN loops' = 1 .. (Len(loops) + 1)
  BY <1>1, <1>2
<1>4. loops'[Len(loops) + 1] = row /\ \A l \in 1 .. Len(loops) : loops'[l] = loops[l]
  BY <1>1
<1> QED BY <1>1, <1>2, <1>3, <1>4

LEMMA Launched ==
    ASSUME LifeTyped, NEW s \in Nat, Life!Launch(s)
    PROVE  /\ loops' \in Seq(LoopRow) /\ task' \in Nat /\ task' <= Len(loops')
           /\ Len(loops) <= Len(loops') /\ Len(loops) \in Nat /\ Len(loops') \in Nat
           /\ started' \in BOOLEAN
<1> DEFINE row == [scheduler |-> s, runs |-> TRUE]
<1>1. row \in LoopRow
  BY DEF LoopRow
<1>2. CASE UNCHANGED <<task, started, loops>>
  BY <1>2 DEF LifeTyped
<1>3. CASE loops' = Append(loops, row) /\ task' = Len(loops) + 1 /\ started' = TRUE
  BY <1>1, <1>3, Appended DEF LifeTyped
<1> QED BY <1>2, <1>3 DEF Life!Launch, Life!running

\* start() when nothing but the task's loop may run: afterwards the task's loop
\* is the scheduler's, and no other runs.
LEMMA LaunchedAlone ==
    ASSUME LifeTyped, NEW s \in Nat, Life!Launch(s), Life!Running \subseteq {task},
           Life!Alive(task) => loops[task].scheduler = s
    PROVE  /\ task' # Life!None /\ loops'[task'].scheduler = s
           /\ Life!Running' \subseteq {task'}
           /\ ((Life!Alive(task) => started) => (Life!Alive(task) => started)')
<1> DEFINE row == [scheduler |-> s, runs |-> TRUE]
<1>1. row \in LoopRow /\ row.scheduler = s
  BY DEF LoopRow
<1>2. CASE Life!Alive(task)
  BY <1>2 DEF Life!Launch, Life!running, Life!Alive, Life!Running
<1>3. CASE ~Life!Alive(task)
  <2>1. loops' = Append(loops, row) /\ task' = Len(loops) + 1
    BY <1>3 DEF Life!Launch
  <2>2. loops \in Seq(LoopRow)
    BY DEF LifeTyped
  <2> HIDE DEF row
  <2>3. /\ Len(loops) \in Nat /\ loops'[task'] = row
        /\ \A l \in DOMAIN loops : loops'[l] = loops[l]
        /\ DOMAIN loops' = DOMAIN loops \cup {task'}
    BY <1>1, <2>1, <2>2, Appended
  <2>4. Life!Running = {}
    <3>1. DOMAIN loops = 1 .. Len(loops)
      BY <2>2
    <3>2. task \notin Life!Running
      BY <1>3, <3>1, <2>3 DEF Life!Alive, Life!Running, Life!None
    <3> QED BY <3>2
  <2>5. Life!Running' \subseteq {task'}
    BY <2>3, <2>4 DEF Life!Running
  <2>6. task' # Life!None
    BY <2>1, <2>3 DEF Life!None
  <2>7. started' = TRUE
    BY <1>3 DEF Life!Launch
  <2> QED BY <1>1, <2>3, <2>5, <2>6, <2>7
<1> QED BY <1>2, <1>3

\* A loop is over: started is withdrawn, and no other loop or scheduler changes.
LEMMA LoopStep ==
    ASSUME LifeInv, NEW l \in DOMAIN loops, Life!LoopEnds(l) \/ Life!LoopDies(l)
    PROVE  LifeInv'
<1> USE DEF LifeInv
<1>1. /\ l \in Life!Running /\ started' = FALSE
      /\ loops' = [loops EXCEPT ![l].runs = FALSE] /\ lifeTroubles' \in Nat
      /\ UNCHANGED <<requests, made, scheduler, brain, bili, task, open, request, overlap,
                     orphans, bare, replaced>>
  BY DEF Life!LoopEnds, Life!LoopDies, Life!Trouble, Life!parts, Life!starts, LifeTyped
<1>2. loops \in Seq(LoopRow) /\ DOMAIN loops = 1 .. Len(loops) /\ Len(loops) \in Nat
  BY DEF LifeTyped
<1>3. loops[l] \in LoopRow
  BY <1>2
<1> DEFINE row == [loops[l] EXCEPT !.runs = FALSE]
<1>4. row \in LoopRow /\ row.scheduler = loops[l].scheduler /\ row.runs = FALSE
  BY <1>3 DEF LoopRow
<1>5. loops' = [loops EXCEPT ![l] = row]
  BY <1>1
<1> HIDE DEF row
<1>6. /\ loops' \in Seq(LoopRow) /\ Len(loops') = Len(loops) /\ DOMAIN loops' = DOMAIN loops
  BY <1>2, <1>4, <1>5
<1>7. \A m \in DOMAIN loops : loops'[m].scheduler = loops[m].scheduler
  BY <1>4, <1>5
<1>8. Life!Running' \subseteq Life!Running
  <2>1. \A m \in DOMAIN loops : loops'[m].runs => loops[m].runs
    BY <1>4, <1>5
  <2> QED BY <1>6, <2>1 DEF Life!Running
<1>9. LifeTyped'
  <2>1. started' \in BOOLEAN
    BY <1>1
  <2> QED BY <1>1, <1>6, <2>1 DEF LifeTyped
<1>10. Up => Up'
  <2> SUFFICES ASSUME Up PROVE Up'
    OBVIOUS
  <2>1. task \in DOMAIN loops
    BY <1>2 DEF Up, LifeTyped, Life!None
  <2>2. loops'[task].scheduler = loops[task].scheduler
    BY <1>7, <2>1
  <2>3. /\ scheduler # Life!None /\ brain # Life!None /\ HasClient
        /\ brain \in open \/ replaced # {}
        /\ task # Life!None /\ loops[task].scheduler = scheduler
        /\ Life!Running' \subseteq {task} /\ open \subseteq Left \cup {brain}
    BY <1>8 DEF Up
  <2>4. l = task
    BY <1>1, <1>8 DEF Up
  <2>5. ~Life!Alive(task)'
    BY <1>1, <1>4, <1>5, <2>1, <2>4 DEF Life!Alive
  <2> QED BY <1>1, <2>2, <2>3, <2>5 DEF Up, HasClient, Left
<1>11. ~Down /\ Life!Running # {}
  BY <1>1 DEF Down
<1>12. ASSUME NEW r \in Requests, Stage(r) PROVE Stage(r)'
  BY <1>1, <1>8, <1>11, <1>12 DEF Stage, Coming, Going, Left
<1>13. Alone' <=> Alone
  BY <1>1 DEF Alone, Life!Busy
<1>14. Life!Busy' = Life!Busy
  BY <1>1 DEF Life!Busy
<1>15. Orderly'
  BY <1>1, <1>10, <1>11, <1>12, <1>13, <1>14 DEF Orderly
<1> QED BY <1>9, <1>15

\* Who is under way is alone, as long as no two requests were at once.
LEMMA AloneAt ==
    ASSUME LifeInv, NEW r \in Requests, request[r].at # "idle"
    PROVE  ~overlap => Life!Busy \subseteq {r} /\ Stage(r)
  BY DEF LifeInv, Orderly, Alone, Life!Busy

LEMMA Arrived ==
    ASSUME LifeInv, NEW r \in Requests, Life!Arrive(r)
    PROVE  /\ requests' \in Nat /\ overlap' \in BOOLEAN /\ request[r].at = "idle"
           /\ ~overlap' => Life!Busy = {} /\ (Up \/ Down)
<1>1. requests' \in Nat /\ request[r].at = "idle" /\ overlap' = (overlap \/ Life!Busy # {})
      /\ overlap \in BOOLEAN
  BY DEF LifeInv, LifeTyped, Life!Arrive
<1>2. ~overlap' => Life!Busy = {} /\ (Up \/ Down)
  BY <1>1 DEF LifeInv, Orderly
<1>3. overlap' \in BOOLEAN
  BY <1>1
<1> QED BY <1>1, <1>2, <1>3

LEMMA RowsOf ==
    ASSUME LifeTyped, NEW r \in Requests, NEW at \in Stages
    PROVE  /\ request[r] \in RequestRow /\ [request[r] EXCEPT !.at = at] \in RequestRow
           /\ [request[r] EXCEPT !.at = at].at = at
           /\ [request[r] EXCEPT !.at = at].made = request[r].made
           /\ [request[r] EXCEPT !.at = at].loop = request[r].loop
           /\ Life!Resting \in RequestRow /\ Life!Resting.at = "idle" /\ Life!Resting.loop = 0
<1>1. request[r] \in RequestRow
  BY DEF LifeTyped, RequestRow
<1>2. Life!Resting \in RequestRow /\ Life!Resting.at = "idle" /\ Life!Resting.loop = 0
  BY DEF Life!Resting, Life!None, RequestRow, Stages
<1> QED BY <1>1, <1>2 DEF RequestRow

\* The row a request gets names a loop that was made.
LEMMA RequestsTyped ==
    ASSUME LifeTyped, NEW r \in Requests, NEW q \in RequestRow, q.loop <= Len(loops),
           request' = [request EXCEPT ![r] = q], loops' \in Seq(LoopRow),
           Len(loops) <= Len(loops')
    PROVE  /\ request' \in [Requests -> [at : Stages, made : Nat, loop : Nat]]
           /\ \A s \in Requests : request'[s].loop <= Len(loops')
<1>1. request \in [Requests -> RequestRow] /\ Len(loops) \in Nat /\ Len(loops') \in Nat
  BY DEF LifeTyped, RequestRow
<1>2. request' \in [Requests -> RequestRow]
  BY <1>1
<1>3. ASSUME NEW s \in Requests PROVE request'[s].loop <= Len(loops')
  <2>1. request'[s] \in {q, request[s]}
    BY <1>1
  <2>2. request[s].loop <= Len(loops) /\ request[s].loop \in Nat /\ q.loop \in Nat
    BY <1>1 DEF LifeTyped, RequestRow
  <2> QED BY <1>1, <2>1, <2>2
<1> QED BY <1>2, <1>3 DEF RequestRow

\* A brain is replaced: what the account loses, it loses to the history.
LEMMA BrainReplaced ==
    ASSUME LifeTyped, Life!Running = {}, Up \/ Down, HasClient', NEW m \in Nat, m # Life!None,
           Life!NewBrain(m), UNCHANGED <<scheduler, task, started, loops, open, orphans>>
    PROVE  /\ (Up \/ Down)' /\ Life!Running' = {}
           /\ brain' = m /\ replaced' \in SUBSET Nat
<1>1. /\ brain' = m /\ replaced' = replaced \cup ({brain} \cap open)
      /\ UNCHANGED <<scheduler, task, started, loops, open, orphans>>
  BY DEF Life!NewBrain
<1>2. open' \subseteq Left' /\ (brain \in open \/ replaced # {} => replaced' # {})
  BY <1>1 DEF Up, Down, Left
<1>3. Life!Running' = {} /\ replaced' \in SUBSET Nat
  BY <1>1 DEF Life!Running, LifeTyped
<1>4. CASE Up
  <2>1. /\ scheduler' # Life!None /\ task' # Life!None /\ loops'[task'].scheduler = scheduler'
        /\ (Life!Alive(task) => started)'
    BY <1>1, <1>4 DEF Up, Life!Alive
  <2> QED BY <1>1, <1>2, <1>3, <1>4, <2>1 DEF Up
<1>5. CASE Down
  BY <1>1, <1>2, <1>3, <1>5 DEF Down
<1> QED BY <1>1, <1>3, <1>4, <1>5

LEMMA StartStep ==
    ASSUME LifeInv, NEW r \in Requests, Life!StartAccount(r) PROVE LifeInv'
<1>1. /\ Life!Arrive(r) /\ UNCHANGED <<lifeTroubles, open, orphans>>
      /\ requests' \in Nat /\ overlap' \in BOOLEAN /\ request[r].at = "idle"
      /\ ~overlap' => Life!Busy = {} /\ (Up \/ Down)
  BY Arrived DEF Life!StartAccount
<1>2. LifeTyped
  BY DEF LifeInv
<1>3. request = [request EXCEPT ![r] = request[r]] /\ request[r] \in RequestRow
      /\ request[r].loop <= Len(loops) /\ Len(loops) \in Nat
  BY <1>2 DEF LifeTyped, RequestRow
<1>4. CASE /\ Life!IsRunning
           /\ UNCHANGED <<made, scheduler, brain, bili, task, started, loops, request, bare, replaced>>
  <2>1. LifeTyped'
    BY <1>1, <1>2, <1>4 DEF LifeTyped
  <2>2. ~overlap' => (Up \/ Down)'
    BY <1>1, <1>4 DEF Up, Down, Life!Running, Life!Alive, HasClient, Left
  <2>3. Orderly'
    BY <1>1, <1>2, <1>3, <1>4, <2>2, OneMoves
  <2> QED BY <2>1, <2>3 DEF LifeInv
<1>5. CASE /\ ~Life!IsRunning /\ Life!NeedsInit
           /\ made' = made + 1 /\ UNCHANGED <<scheduler, task, started, loops>>
           /\ Life!WithClient(r) \/ Life!WithoutClient(r)
  <2>1. made \in Nat /\ made + 1 \in Nat /\ made + 1 # Life!None
    BY <1>2 DEF LifeTyped, Life!None
  <2>2. PICK place \in {"client", "brain"} :
          request' = [request EXCEPT ![r] = [Life!Resting EXCEPT !.at = place, !.made = made + 1]]
    BY <1>5 DEF Life!WithClient, Life!WithoutClient, Life!Begin
  <2> DEFINE q == [Life!Resting EXCEPT !.at = place, !.made = made + 1]
  <2>3. q \in RequestRow /\ q.at = place /\ q.made = made + 1 /\ q.loop = 0
    BY <2>1 DEF RequestRow, Life!Resting, Life!None, Stages
  <2>4. request' = [request EXCEPT ![r] = q]
    BY <2>2
  <2> HIDE DEF q
  <2>5. loops' \in Seq(LoopRow) /\ Len(loops) <= Len(loops') /\ q.loop <= Len(loops)
    BY <1>2, <1>3, <1>5, <2>3 DEF LifeTyped
  <2>6. /\ request' \in [Requests -> [at : Stages, made : Nat, loop : Nat]]
        /\ \A s \in Requests : request'[s].loop <= Len(loops')
    BY <1>2, <2>3, <2>4, <2>5, RequestsTyped
  <2>7. request'[r] = q
    BY <1>2, <2>4 DEF LifeTyped
  <2>8. ASSUME ~overlap' PROVE (Up \/ Down) /\ Life!Running = {}
    BY <1>1, <1>5, <2>8 DEF Up, Down, Life!IsRunning, Life!Running, Life!Alive
  <2>9. CASE Life!WithClient(r)
    <3>1. bili' = made + 1 /\ bare' = FALSE /\ UNCHANGED <<brain, replaced>> /\ place = "client"
      <4>1. request'[r].at = "client"
        BY <1>2, <2>9 DEF Life!WithClient, Life!Begin, Life!Resting, LifeTyped
      <4> QED BY <2>3, <2>7, <2>9, <4>1 DEF Life!WithClient
    <3>2. LifeTyped'
      BY <1>1, <1>2, <1>5, <2>1, <2>6, <3>1 DEF LifeTyped
    <3>3. ASSUME ~overlap' PROVE Stage(r)'
      <4>1. HasClient'
        BY <2>1, <3>1 DEF HasClient
      <4>2. (Up \/ Down)' /\ Life!Running' = {}
        BY <1>1, <1>5, <2>8, <3>1, <3>3, <4>1 DEF Up, Down, Life!Running, Life!Alive, Left
      <4> QED BY <2>1, <2>3, <2>7, <3>1, <4>1, <4>2 DEF Stage, Coming
    <3>4. Orderly'
      BY <1>1, <1>2, <2>3, <2>4, <3>1, <3>3, OneMoves
    <3> QED BY <3>2, <3>4 DEF LifeInv
  <2>10. CASE Life!WithoutClient(r)
    <3>1. bili' = bili /\ bare' = TRUE /\ Life!NewBrain(made + 1) /\ place = "brain"
      <4>1. request'[r].at = "brain"
        BY <1>2, <2>10 DEF Life!WithoutClient, Life!Begin, Life!Resting, LifeTyped
      <4> QED BY <2>3, <2>7, <2>10, <4>1 DEF Life!WithoutClient
    <3>2. brain' = made + 1 /\ replaced' \in SUBSET Nat
      BY <1>2, <3>1 DEF Life!NewBrain, LifeTyped
    <3>3. LifeTyped'
      BY <1>1, <1>2, <1>5, <2>1, <2>6, <3>1, <3>2 DEF LifeTyped
    <3>4. ASSUME ~overlap' PROVE Stage(r)'
      <4>1. HasClient'
        BY <3>1 DEF HasClient
      <4>2. (Up \/ Down)' /\ Life!Running' = {} /\ brain' = made + 1
        BY <1>1, <1>2, <1>5, <2>1, <2>8, <3>1, <3>4, <4>1, BrainReplaced
      <4> QED BY <2>1, <2>3, <2>7, <3>1, <4>1, <4>2 DEF Stage, Coming
    <3>5. Orderly'
      BY <1>1, <1>2, <2>3, <2>4, <3>1, <3>4, OneMoves
    <3> QED BY <3>3, <3>5 DEF LifeInv
  <2> QED BY <1>5, <2>9, <2>10
<1>6. CASE /\ ~Life!IsRunning /\ ~Life!NeedsInit /\ Life!Launch(scheduler)
           /\ UNCHANGED <<made, scheduler, brain, bili, request, bare, replaced>>
  <2>1. scheduler \in Nat
    BY <1>2 DEF LifeTyped
  <2>2. /\ loops' \in Seq(LoopRow) /\ task' \in Nat /\ task' <= Len(loops')
        /\ Len(loops) <= Len(loops') /\ started' \in BOOLEAN
    BY <1>2, <1>6, <2>1, Launched
  <2>3. /\ request' \in [Requests -> [at : Stages, made : Nat, loop : Nat]]
        /\ \A s \in Requests : request'[s].loop <= Len(loops')
    BY <1>2, <1>3, <1>6, <2>2, RequestsTyped
  <2>4. LifeTyped'
    BY <1>1, <1>2, <1>6, <2>2, <2>3 DEF LifeTyped
  <2>5. ASSUME ~overlap' PROVE Up'
    <3>1. Up
      BY <1>1, <1>6, <2>5 DEF Down, Life!NeedsInit
    <3>2. /\ task' # Life!None /\ loops'[task'].scheduler = scheduler
          /\ Life!Running' \subseteq {task'} /\ (Life!Alive(task) => started)'
      BY <1>2, <1>6, <2>1, <3>1, LaunchedAlone DEF Up
    <3> QED BY <1>1, <1>6, <3>1, <3>2 DEF Up, HasClient, Left
  <2>6. Orderly'
    BY <1>1, <1>2, <1>3, <1>6, <2>5, OneMoves
  <2> QED BY <2>4, <2>6 DEF LifeInv
<1> QED BY <1>4, <1>5, <1>6 DEF Life!StartAccount, Life!parts, Life!running, Life!starts

LEMMA MakeBrainStep ==
    ASSUME LifeInv, NEW r \in Requests, Life!MakeBrain(r) PROVE LifeInv'
<1>1. /\ request[r].at = "client" /\ request' = [request EXCEPT ![r].at = "brain"]
      /\ Life!NewBrain(request[r].made)
      /\ UNCHANGED <<requests, lifeTroubles, made, scheduler, bili, task, started, loops, open,
                     overlap, orphans, bare>>
  BY DEF Life!MakeBrain, Life!At, Life!running
<1>2. LifeTyped /\ "brain" \in Stages
  BY DEF LifeInv, Stages
<1> DEFINE q == [request[r] EXCEPT !.at = "brain"]
<1>3. /\ request[r] \in RequestRow /\ q \in RequestRow /\ q.at = "brain"
      /\ q.made = request[r].made /\ q.loop = request[r].loop
  BY <1>2, RowsOf
<1>4. request' = [request EXCEPT ![r] = q] /\ request'[r] = q
  BY <1>1, <1>2 DEF LifeTyped
<1> HIDE DEF q
<1>5. loops' \in Seq(LoopRow) /\ Len(loops) <= Len(loops') /\ q.loop <= Len(loops)
  BY <1>1, <1>2, <1>3 DEF LifeTyped
<1>6. /\ request' \in [Requests -> [at : Stages, made : Nat, loop : Nat]]
      /\ \A s \in Requests : request'[s].loop <= Len(loops')
  BY <1>2, <1>3, <1>4, <1>5, RequestsTyped
<1>7. LifeTyped'
  <2>1. brain' \in Nat /\ replaced' \in SUBSET Nat
    BY <1>1, <1>2, <1>3 DEF RequestRow, Life!NewBrain, LifeTyped
  <2> QED BY <1>1, <1>2, <1>6, <2>1 DEF LifeTyped
<1>8. ASSUME ~overlap PROVE Life!Busy \subseteq {r} /\ Coming(r)
  BY <1>1, <1>8, AloneAt DEF Stage
<1>9. ASSUME ~overlap PROVE Stage(r)'
  <2>1. HasClient' /\ request[r].made \in Nat /\ request[r].made # Life!None
    BY <1>1, <1>3, <1>8, <1>9 DEF Coming, HasClient, RequestRow
  <2>2. (Up \/ Down)' /\ Life!Running' = {} /\ brain' = request[r].made
    BY <1>1, <1>2, <1>8, <1>9, <2>1, BrainReplaced DEF Coming
  <2> QED BY <1>3, <1>4, <2>1, <2>2 DEF Stage, Coming
<1>10. Orderly'
  BY <1>1, <1>2, <1>3, <1>4, <1>8, <1>9, OneMoves
<1> QED BY <1>7, <1>10 DEF LifeInv

LEMMA ReadyStep ==
    ASSUME LifeInv, NEW r \in Requests, Life!Ready(r) PROVE LifeInv'
<1> DEFINE m == request[r].made
<1>1. /\ request[r].at = "brain" /\ request' = [request EXCEPT ![r] = Life!Resting]
      /\ open' = open \cup {m} /\ scheduler' = m /\ Life!Launch(m)
      /\ UNCHANGED <<requests, lifeTroubles, made, brain, bili, overlap, orphans, bare, replaced>>
  BY DEF Life!Ready, Life!Answer, Life!starts
<1>2. LifeTyped /\ "idle" \in Stages
  BY DEF LifeInv, Stages
<1>3. /\ request[r] \in RequestRow /\ Life!Resting \in RequestRow /\ Life!Resting.at = "idle"
      /\ Life!Resting.loop = 0
  BY <1>2, RowsOf
<1>4. m \in Nat
  BY <1>3 DEF RequestRow
<1> HIDE DEF m
<1>5. /\ loops' \in Seq(LoopRow) /\ task' \in Nat /\ task' <= Len(loops')
      /\ Len(loops) <= Len(loops') /\ Len(loops) \in Nat /\ started' \in BOOLEAN
  BY <1>1, <1>2, <1>4, Launched
<1>6. Life!Resting.loop <= Len(loops)
  BY <1>3, <1>5
<1>7. /\ request' \in [Requests -> [at : Stages, made : Nat, loop : Nat]]
      /\ \A s \in Requests : request'[s].loop <= Len(loops')
  BY <1>1, <1>2, <1>3, <1>5, <1>6, RequestsTyped
<1>8. LifeTyped'
  BY <1>1, <1>2, <1>4, <1>5, <1>7 DEF LifeTyped
<1>9. ASSUME ~overlap
      PROVE  /\ Life!Busy \subseteq {r} /\ Life!Running = {} /\ HasClient /\ m # Life!None
             /\ brain = m /\ open \subseteq Left \cup {m} /\ ~Life!Alive(task)
  <2>1. Life!Busy \subseteq {r} /\ Coming(r)
    BY <1>1, <1>9, AloneAt DEF Stage
  <2>2. ~Life!Alive(task)
    <3>1. loops \in Seq(LoopRow) /\ task \in Nat /\ task <= Len(loops) /\ Len(loops) \in Nat
      BY <1>2 DEF LifeTyped
    <3> QED BY <2>1, <3>1 DEF Coming, Life!Running, Life!Alive, Life!None
  <2>3. /\ Life!Running = {} /\ HasClient /\ m # Life!None /\ brain = m
        /\ open \subseteq Left \cup {m}
    BY <1>1, <2>1 DEF Coming, Up, Down, m
  <2> QED BY <2>1, <2>2, <2>3
<1>10. ASSUME ~overlap PROVE Up'
  <2>1. Life!Running \subseteq {task} /\ ~Life!Alive(task)
    BY <1>9, <1>10
  <2>2. /\ task' # Life!None /\ loops'[task'].scheduler = m /\ Life!Running' \subseteq {task'}
        /\ (Life!Alive(task) => started)'
    BY <1>1, <1>2, <1>4, <2>1, LaunchedAlone
  <2>3. open' \subseteq Left' \cup {m} /\ HasClient'
    BY <1>1, <1>9, <1>10 DEF Left, HasClient
  <2> QED BY <1>1, <1>9, <1>10, <2>2, <2>3 DEF Up
<1>11. Orderly'
  BY <1>1, <1>2, <1>3, <1>9, <1>10, OneMoves
<1> QED BY <1>8, <1>11 DEF LifeInv

LEMMA NotReadyStep ==
    ASSUME LifeInv, NEW r \in Requests, Life!NotReady(r) PROVE LifeInv'
<1>1. /\ request[r].at = "brain" /\ request' = [request EXCEPT ![r] = Life!Resting]
      /\ lifeTroubles' = lifeTroubles + 1
      /\ UNCHANGED <<requests, made, scheduler, brain, bili, task, started, loops, open, overlap,
                     orphans, bare, replaced>>
  BY DEF Life!NotReady, Life!Answer, Life!Trouble, Life!parts, Life!running, Life!starts
<1>2. LifeTyped /\ "idle" \in Stages
  BY DEF LifeInv, Stages
<1>3. Life!Resting \in RequestRow /\ Life!Resting.at = "idle" /\ Life!Resting.loop = 0
  BY <1>2, RowsOf
<1>4. /\ loops' \in Seq(LoopRow) /\ Len(loops) <= Len(loops')
      /\ Life!Resting.loop <= Len(loops)
  BY <1>1, <1>2, <1>3 DEF LifeTyped
<1>5. /\ request' \in [Requests -> [at : Stages, made : Nat, loop : Nat]]
      /\ \A s \in Requests : request'[s].loop <= Len(loops')
  BY <1>1, <1>2, <1>3, <1>4, RequestsTyped
<1>6. LifeTyped'
  BY <1>1, <1>2, <1>5 DEF LifeTyped
<1>7. ASSUME ~overlap PROVE Life!Busy \subseteq {r} /\ (Up \/ Down)'
  <2>1. Life!Busy \subseteq {r} /\ (Up \/ Down)
    BY <1>1, <1>7, AloneAt DEF Stage, Coming
  <2> QED BY <1>1, <2>1 DEF Up, Down, Life!Running, Life!Alive, HasClient, Left
<1>8. Orderly'
  BY <1>1, <1>2, <1>3, <1>7, OneMoves
<1> QED BY <1>6, <1>8 DEF LifeInv

LEMMA StopStep ==
    ASSUME LifeInv, NEW r \in Requests, Life!StopAccount(r) PROVE LifeInv'
<1> DEFINE q == [at |-> "stopping", made |-> 0, loop |-> task]
<1>1. /\ Life!Arrive(r) /\ started' = FALSE /\ request' = [request EXCEPT ![r] = q]
      /\ UNCHANGED <<lifeTroubles, made, scheduler, brain, bili, task, loops, open, orphans, bare,
                     replaced>>
      /\ requests' \in Nat /\ overlap' \in BOOLEAN
      /\ ~overlap' => Life!Busy = {} /\ (Up \/ Down)
  BY Arrived DEF Life!StopAccount, Life!parts, Life!None, Life!starts
<1>2. LifeTyped
  BY DEF LifeInv
<1>3. q \in RequestRow /\ q.at = "stopping" /\ q.loop = task
  BY <1>2 DEF LifeTyped, RequestRow, Stages
<1>4. request'[r] = q
  BY <1>1, <1>2 DEF LifeTyped
<1> HIDE DEF q
<1>5. loops' \in Seq(LoopRow) /\ Len(loops) <= Len(loops') /\ q.loop <= Len(loops)
  BY <1>1, <1>2, <1>3 DEF LifeTyped
<1>6. /\ request' \in [Requests -> [at : Stages, made : Nat, loop : Nat]]
      /\ \A s \in Requests : request'[s].loop <= Len(loops')
  BY <1>1, <1>2, <1>3, <1>5, RequestsTyped
<1>7. LifeTyped'
  <2>1. started' \in BOOLEAN
    BY <1>1
  <2> QED BY <1>1, <1>2, <1>6, <2>1 DEF LifeTyped
<1>8. ASSUME ~overlap' PROVE Stage(r)'
  <2>1. Life!Running \subseteq {task} /\ open \subseteq Left \cup {brain}
    BY <1>1, <1>8 DEF Up, Down
  <2>2. Life!Running' \subseteq {task'} /\ open' \subseteq Left' \cup {brain'}
    BY <1>1, <2>1 DEF Life!Running, Left
  <2> QED BY <1>1, <1>3, <1>4, <2>2 DEF Stage, Going
<1>9. Orderly'
  BY <1>1, <1>2, <1>3, <1>8, OneMoves
<1> QED BY <1>7, <1>9 DEF LifeInv

LEMMA LoopOverStep ==
    ASSUME LifeInv, NEW r \in Requests, Life!LoopOver(r) PROVE LifeInv'
<1>1. /\ request[r].at = "stopping" /\ ~Life!Alive(request[r].loop)
      /\ request' = [request EXCEPT ![r].at = "draining"] /\ task' = Life!None
      /\ UNCHANGED <<requests, lifeTroubles, made, scheduler, brain, bili, started, loops, open,
                     overlap, orphans, bare, replaced>>
  BY DEF Life!LoopOver, Life!At, Life!parts, Life!starts
<1>2. LifeTyped /\ "draining" \in Stages
  BY DEF LifeInv, Stages
<1> DEFINE q == [request[r] EXCEPT !.at = "draining"]
<1>3. q \in RequestRow /\ q.at = "draining" /\ q.loop = request[r].loop
  BY <1>2, RowsOf
<1>4. request' = [request EXCEPT ![r] = q] /\ request'[r] = q
  BY <1>1, <1>2 DEF LifeTyped
<1> HIDE DEF q
<1>5. loops' \in Seq(LoopRow) /\ Len(loops) <= Len(loops') /\ q.loop <= Len(loops)
  BY <1>1, <1>2, <1>3 DEF LifeTyped
<1>6. /\ request' \in [Requests -> [at : Stages, made : Nat, loop : Nat]]
      /\ \A s \in Requests : request'[s].loop <= Len(loops')
  BY <1>2, <1>3, <1>4, <1>5, RequestsTyped
<1>7. LifeTyped'
  <2>1. task' \in Nat /\ task' <= Len(loops')
    BY <1>1, <1>2 DEF LifeTyped, Life!None
  <2> QED BY <1>1, <1>2, <1>6, <2>1 DEF LifeTyped
<1>8. ASSUME ~overlap PROVE Life!Busy \subseteq {r} /\ Going(r)
  BY <1>1, <1>8, AloneAt DEF Stage
<1>9. ASSUME ~overlap PROVE Stage(r)'
  <2>1. Life!Running \subseteq {task} /\ task = request[r].loop
    BY <1>1, <1>8, <1>9 DEF Going
  <2>2. Life!Running = {}
    BY <1>1, <1>2, <2>1 DEF Life!Running, Life!Alive, Life!None, LifeTyped
  <2>3. Life!Running' = {}
    BY <1>1, <2>2 DEF Life!Running
  <2> QED BY <1>1, <1>3, <1>4, <1>8, <1>9, <2>3 DEF Stage, Going, Left
<1>10. Orderly'
  BY <1>1, <1>2, <1>3, <1>4, <1>8, <1>9, OneMoves
<1> QED BY <1>7, <1>10 DEF LifeInv

LEMMA CloseBrainStep ==
    ASSUME LifeInv, NEW r \in Requests, Life!CloseBrain(r) PROVE LifeInv'
<1>1. /\ request[r].at = "draining"
      /\ request' = [request EXCEPT ![r].at = "closing"] /\ brain' = Life!None
      /\ \/ open' = open \ {brain} /\ UNCHANGED <<lifeTroubles, orphans>>
         \/ brain \in open /\ Life!Trouble /\ orphans' = orphans \cup {brain} /\ UNCHANGED open
      /\ UNCHANGED <<requests, made, scheduler, bili, task, started, loops, overlap, bare, replaced>>
  BY DEF Life!CloseBrain, Life!At, Life!running, Life!starts
<1>2. LifeTyped /\ "closing" \in Stages
  BY DEF LifeInv, Stages
<1> DEFINE q == [request[r] EXCEPT !.at = "closing"]
<1>3. q \in RequestRow /\ q.at = "closing" /\ q.loop = request[r].loop
  BY <1>2, RowsOf
<1>4. request' = [request EXCEPT ![r] = q] /\ request'[r] = q
  BY <1>1, <1>2 DEF LifeTyped
<1> HIDE DEF q
<1>5. loops' \in Seq(LoopRow) /\ Len(loops) <= Len(loops') /\ q.loop <= Len(loops)
  BY <1>1, <1>2, <1>3 DEF LifeTyped
<1>6. /\ request' \in [Requests -> [at : Stages, made : Nat, loop : Nat]]
      /\ \A s \in Requests : request'[s].loop <= Len(loops')
  BY <1>2, <1>3, <1>4, <1>5, RequestsTyped
<1>7. LifeTyped'
  <2>1. lifeTroubles' \in Nat /\ brain' \in Nat /\ open' \in SUBSET Nat /\ orphans' \in SUBSET Nat
    BY <1>1, <1>2 DEF LifeTyped, Life!None, Life!Trouble
  <2> QED BY <1>1, <1>2, <1>6, <2>1 DEF LifeTyped
<1>8. ASSUME ~overlap PROVE Life!Busy \subseteq {r} /\ Going(r)
  BY <1>1, <1>8, AloneAt DEF Stage
<1>9. ASSUME ~overlap PROVE Stage(r)'
  <2>1. ~started /\ task = Life!None /\ Life!Running = {} /\ open \subseteq Left \cup {brain}
    BY <1>1, <1>8, <1>9 DEF Going
  <2>2. open' \subseteq Left'
    BY <1>1, <2>1 DEF Left
  <2>3. Life!Running' = {}
    BY <1>1, <2>1 DEF Life!Running
  <2> QED BY <1>1, <1>3, <1>4, <2>1, <2>2, <2>3 DEF Stage, Going, Left
<1>10. Orderly'
  BY <1>1, <1>2, <1>3, <1>4, <1>8, <1>9, OneMoves
<1> QED BY <1>7, <1>10 DEF LifeInv

LEMMA ClosedStep ==
    ASSUME LifeInv, NEW r \in Requests, Life!Closed(r) PROVE LifeInv'
<1>1. /\ request[r].at = "closing" /\ request' = [request EXCEPT ![r] = Life!Resting]
      /\ scheduler' = Life!None /\ brain' = Life!None /\ bili' = Life!None
      /\ UNCHANGED <<requests, lifeTroubles, made, task, started, loops, open, overlap, orphans,
                     bare, replaced>>
  BY DEF Life!Closed, Life!Answer, Life!running, Life!starts
<1>2. LifeTyped /\ "idle" \in Stages
  BY DEF LifeInv, Stages
<1>3. Life!Resting \in RequestRow /\ Life!Resting.at = "idle" /\ Life!Resting.loop = 0
  BY <1>2, RowsOf
<1>4. /\ loops' \in Seq(LoopRow) /\ Len(loops) <= Len(loops')
      /\ Life!Resting.loop <= Len(loops)
  BY <1>1, <1>2, <1>3 DEF LifeTyped
<1>5. /\ request' \in [Requests -> [at : Stages, made : Nat, loop : Nat]]
      /\ \A s \in Requests : request'[s].loop <= Len(loops')
  BY <1>1, <1>2, <1>3, <1>4, RequestsTyped
<1>6. LifeTyped'
  BY <1>1, <1>2, <1>5 DEF LifeTyped, Life!None
<1>7. ASSUME ~overlap PROVE Life!Busy \subseteq {r} /\ Down'
  BY <1>1, <1>7, AloneAt DEF Stage, Going, Down, Life!Running, Left
<1>8. Orderly'
  BY <1>1, <1>2, <1>3, <1>7, OneMoves
<1> QED BY <1>6, <1>8 DEF LifeInv

\* A client more disturbs nothing.
LEMMA LoginStep == ASSUME LifeInv, Life!Login PROVE LifeInv'
<1>1. /\ bili' = made
      /\ UNCHANGED <<requests, lifeTroubles, made, scheduler, brain, task, started, loops, open,
                     request, overlap, orphans, bare, replaced>>
  BY DEF Life!Login, Life!running, Life!starts
<1>2. made \in Nat /\ made # Life!None
  BY DEF LifeInv, LifeTyped
<1>3. LifeTyped'
  BY <1>1, <1>2 DEF LifeInv, LifeTyped
<1>4. HasClient'
  BY <1>1, <1>2 DEF HasClient
<1>5. (Up => Up') /\ (Down => Down') /\ Life!Running' = Life!Running
  BY <1>1, <1>4 DEF Up, Down, Life!Running, Life!Alive, Left
<1>6. ASSUME NEW r \in Requests, Stage(r) PROVE Stage(r)'
  BY <1>1, <1>4, <1>5, <1>6 DEF Stage, Coming, Going, Left
<1>7. Orderly'
  BY <1>1, <1>5, <1>6 DEF LifeInv, Orderly, Alone, Life!Busy
<1> QED BY <1>3, <1>7 DEF LifeInv

LEMMA LifeStep == ASSUME LifeInv, Life!Next PROVE LifeInv'
<1>1. ASSUME NEW r \in Requests, Life!Starting(r) PROVE LifeInv'
  BY <1>1, StartStep, MakeBrainStep, ReadyStep, NotReadyStep DEF Life!Starting
<1>2. ASSUME NEW r \in Requests, Life!Stopping(r) PROVE LifeInv'
  BY <1>2, StopStep, LoopOverStep, CloseBrainStep, ClosedStep DEF Life!Stopping
<1> QED BY <1>1, <1>2, LoopStep, LoginStep DEF Life!Next

LEMMA LifeLeft == ASSUME LifeInv, UNCHANGED lifeVars PROVE LifeInv'
<1>1. LifeTyped'
  BY DEF lifeVars, LifeInv, LifeTyped
<1>2. Orderly'
  BY DEF lifeVars, LifeInv, Orderly, Alone, Life!Busy, Life!Running, Life!Alive, Up, Down, HasClient,
     Left, Stage, Coming, Going
<1> QED BY <1>1, <1>2 DEF LifeInv

LEMMA LifeKept == Spec => []LifeInv
<1>1. ASSUME LifeInv, [Next]_vars PROVE LifeInv'
  <2>1. CASE RunLife
    BY <1>1, <2>1, LifeStep DEF RunLife
  <2>2. CASE RunSettings \/ RunRouter \/ UNCHANGED vars
    BY <1>1, <2>2, LifeLeft DEF RunSettings, RunRouter, vars
  <2> QED BY <1>1, <2>1, <2>2 DEF Next
<1> QED BY <1>1, LifeStart, PTL DEF Spec

\* However starts and stops that do not overlap, with credentials or without,
\* logins, failed initialisations, dying loops and timeouts follow one another,
\* one loop runs at a time, it is that of the instance's scheduler, with a client
\* if there were credentials and a brain that works unless a start replaced one;
\* and a stopped account runs nothing, but for a worker whose close ran out of
\* time or whose brain was replaced by a start.
THEOREM OneLoopAlways == Spec => []OneLoop
<1> SUFFICES LifeInv => OneLoop
  BY LifeKept, PTL
<1>0. overlap => OneLoop
  BY DEF OneLoop, Life!OneLoop, Life!StoppedHoldsNothing
<1> SUFFICES ASSUME LifeInv, ~overlap PROVE OneLoop
  BY <1>0
<1>1. Life!Running \subseteq {task}
  <2>1. CASE Life!Busy = {}
    BY <2>1 DEF LifeInv, Orderly, Up, Down
  <2>2. CASE Life!Busy # {}
    <3>1. PICK r \in Requests : request[r].at # "idle"
      BY <2>2 DEF Life!Busy
    <3>2. request[r].at \in Stages
      BY DEF LifeInv, LifeTyped
    <3> QED BY <3>1, <3>2, AloneAt DEF Stage, Coming, Going, Down, Stages
  <2> QED BY <2>1, <2>2
<1>2. \A l, m \in Life!Running : l = m
  BY <1>1
<1>3. ASSUME Life!IsRunning
      PROVE  /\ loops[task].scheduler = scheduler
             /\ (brain \in open \/ replaced # {}) /\ (bili # Life!None \/ bare)
  <2>1. Life!Busy = {}
    <3> SUFFICES ASSUME NEW r \in Requests, request[r].at # "idle" PROVE FALSE
      BY DEF Life!Busy
    <3>1. request[r].at \in Stages
      BY DEF LifeInv, LifeTyped
    <3>2. Life!Running # {}
      <4>1. loops \in Seq(LoopRow) /\ task \in Nat /\ task <= Len(loops) /\ Len(loops) \in Nat
        BY DEF LifeInv, LifeTyped
      <4> QED BY <1>3, <4>1 DEF Life!IsRunning, Life!Alive, Life!Running, Life!None
    <3> QED BY <1>3, <3>1, <3>2, AloneAt DEF Stage, Coming, Going, Stages, Life!IsRunning
  <2>2. Up
    BY <1>3, <2>1 DEF LifeInv, Orderly, Down, Life!IsRunning
  <2> QED BY <2>2 DEF Up, HasClient
<1>4. Life!StoppedHoldsNothing
  <2> SUFFICES ASSUME Life!Busy = {}, scheduler = Life!None
               PROVE  Life!Running = {} /\ open \subseteq orphans \cup replaced
    BY DEF Life!StoppedHoldsNothing
  <2>1. Down
    BY DEF LifeInv, Orderly, Up
  <2> QED BY <2>1 DEF Down, Left
<1>5. Life!OneLoop
  <2>1. Life!IsRunning => /\ loops[task].scheduler = scheduler
                          /\ (brain \in open \/ replaced # {}) /\ (bili # Life!None \/ bare)
    BY <1>3
  <2> QED BY <1>2, <2>1 DEF Life!OneLoop
<1> QED BY <1>4, <1>5 DEF OneLoop

-----------------------------------------------------------------------------
(* The pools and the routes.                                              *)

LEMMA Replaced ==
    ASSUME NEW s \in Seq(Provider), NEW q \in Provider,
           NEW t, t = [i \in DOMAIN s |-> IF s[i].id = q.id THEN q ELSE s[i]]
    PROVE  /\ t \in Seq(Provider) /\ Named(t) = Named(s) /\ (Once(s) => Once(t))
<1>1. DOMAIN s = 1..Len(s) /\ Len(s) \in Nat /\ \A i \in DOMAIN s : s[i] \in Provider
  OBVIOUS
<1>2. DOMAIN t = DOMAIN s /\ \A i \in DOMAIN s : t[i] \in Provider /\ t[i].id = s[i].id
  BY <1>1
<1>3. t \in [1..Len(s) -> Provider]
  BY <1>1, <1>2
<1>4. t \in Seq(Provider)
  BY <1>1, <1>3, SeqDef
<1> QED
  BY <1>2, <1>4 DEF Named, Once

LEMMA AddedLast ==
    ASSUME NEW s \in Seq(Provider), NEW q \in Provider, q.id \notin Named(s)
    PROVE  /\ Append(s, q) \in Seq(Provider)
           /\ Named(Append(s, q)) = Named(s) \cup {q.id}
           /\ Once(s) => Once(Append(s, q))
<1>1. /\ Append(s, q) \in Seq(Provider) /\ Len(s) \in Nat
      /\ DOMAIN s = 1..Len(s) /\ DOMAIN Append(s, q) = 1..(Len(s) + 1)
      /\ \A i \in DOMAIN s : Append(s, q)[i] = s[i]
      /\ Append(s, q)[Len(s) + 1] = q
  OBVIOUS
<1> DEFINE t == Append(s, q)
<1>2. Named(t) = Named(s) \cup {q.id}
  <2>1. ASSUME NEW n \in Named(t) PROVE n \in Named(s) \cup {q.id}
    <3>1. PICK i \in DOMAIN t : n = t[i].id
      BY <2>1 DEF Named
    <3> QED
      BY <1>1, <3>1 DEF Named
  <2>2. ASSUME NEW n \in Named(s) PROVE n \in Named(t)
    <3>1. PICK i \in DOMAIN s : n = s[i].id
      BY <2>2 DEF Named
    <3> QED
      BY <1>1, <3>1 DEF Named
  <2>3. q.id \in Named(t)
    BY <1>1 DEF Named
  <2> QED
    BY <2>1, <2>2, <2>3
<1>3. ASSUME Once(s) PROVE Once(t)
  <2> SUFFICES ASSUME NEW i \in DOMAIN t, NEW j \in DOMAIN t, t[i].id = t[j].id PROVE i = j
    BY DEF Once
  <2>1. CASE i \in DOMAIN s /\ j \in DOMAIN s
    BY <1>1, <1>3, <2>1 DEF Once
  <2>2. CASE i \in DOMAIN s /\ j \notin DOMAIN s
    BY <1>1, <2>2 DEF Named
  <2>3. CASE i \notin DOMAIN s /\ j \in DOMAIN s
    BY <1>1, <2>3 DEF Named
  <2>4. CASE i \notin DOMAIN s /\ j \notin DOMAIN s
    BY <1>1, <2>4
  <2> QED
    BY <2>1, <2>2, <2>3, <2>4
<1> QED
  BY <1>1, <1>2, <1>3

\* The place is in the pool; what is cut out leaves the others, in their order.
LEMMA CutOut ==
    ASSUME NEW s \in Seq(Provider), NEW id \in Named(s)
    PROVE  /\ Router!Rest(s, id) \in Seq(Provider)
           /\ Once(s) => /\ Once(Router!Rest(s, id))
                         /\ Named(Router!Rest(s, id)) = Named(s) \ {id}
<1> DEFINE n == Router!Place(s, id)
           t == Router!Rest(s, id)
<1>1. n \in DOMAIN s /\ s[n].id = id
  BY DEF Router!Place, Named
<1>2. DOMAIN s = 1..Len(s) /\ Len(s) \in Nat /\ \A i \in DOMAIN s : s[i] \in Provider
  OBVIOUS
<1>3. t = SubSeq(s, 1, n - 1) \o SubSeq(s, n + 1, Len(s))
  BY DEF Router!Rest, Router!RemoveAt
<1> HIDE DEF n, t
<1>4. /\ SubSeq(s, 1, n - 1) \in Seq(Provider) /\ Len(SubSeq(s, 1, n - 1)) = n - 1
      /\ \A i \in 1..(n - 1) : SubSeq(s, 1, n - 1)[i] = s[i]
  BY <1>1, <1>2, SubSeqProperties
<1>5. /\ SubSeq(s, n + 1, Len(s)) \in Seq(Provider)
      /\ Len(SubSeq(s, n + 1, Len(s))) = Len(s) - n
      /\ \A i \in 1..(Len(s) - n) : SubSeq(s, n + 1, Len(s))[i] = s[i + n]
  BY <1>1, <1>2, SubSeqProperties
<1>6. /\ t \in Seq(Provider) /\ Len(t) = Len(s) - 1 /\ DOMAIN t = 1..(Len(s) - 1)
      /\ \A i \in DOMAIN t : t[i] = IF i < n THEN s[i] ELSE s[i + 1]
  <2> DEFINE before == SubSeq(s, 1, n - 1)
             after == SubSeq(s, n + 1, Len(s))
  <2>1. /\ t \in Seq(Provider) /\ Len(t) = Len(before) + Len(after)
        /\ \A i \in 1..Len(before) + Len(after) :
             t[i] = IF i <= Len(before) THEN before[i] ELSE after[i - Len(before)]
    BY <1>3, <1>4, <1>5, ConcatProperties
  <2>2. /\ Len(before) = n - 1 /\ Len(after) = Len(s) - n
        /\ n \in Nat /\ n >= 1 /\ n <= Len(s)
    BY <1>1, <1>2, <1>4, <1>5
  <2> HIDE DEF before, after
  <2>3. Len(t) = Len(s) - 1 /\ DOMAIN t = 1..(Len(s) - 1)
    <3>1. Len(t) = Len(s) - 1
      BY <1>2, <2>2, <2>1
    <3>2. DOMAIN t = 1..Len(t)
      BY <2>1
    <3> QED
      BY <3>1, <3>2
  <2>4. \A i \in DOMAIN t : t[i] = IF i < n THEN s[i] ELSE s[i + 1]
    <3> SUFFICES ASSUME NEW i \in DOMAIN t
                 PROVE  t[i] = IF i < n THEN s[i] ELSE s[i + 1]
      OBVIOUS
    <3>1. CASE i < n
      <4>1. i \in 1..(n - 1) /\ i <= Len(before) /\ i \in 1..Len(before) + Len(after)
        BY <1>2, <2>2, <2>3, <3>1
      <4> QED
        BY <1>4, <2>1, <3>1, <4>1 DEF before
    <3>2. CASE i >= n
      <4>1. /\ i - (n - 1) \in 1..(Len(s) - n) /\ ~(i <= Len(before)) /\ ~(i < n)
            /\ Len(before) = n - 1 /\ i \in 1..Len(before) + Len(after)
            /\ i - (n - 1) + n = i + 1
        BY <1>2, <2>2, <2>3, <3>2
      <4>2. after[i - (n - 1)] = s[i - (n - 1) + n]
        BY <1>5, <4>1 DEF after
      <4>3. after[i - Len(before)] = s[i + 1]
        BY <4>1, <4>2
      <4> QED
        BY <2>1, <4>1, <4>3
    <3> QED
      BY <1>1, <1>2, <2>3, <3>1, <3>2
  <2> QED
    BY <2>1, <2>3, <2>4
<1>7. ASSUME Once(s) PROVE Once(t) /\ Named(t) = Named(s) \ {id}
  <2>1. \A i \in DOMAIN t : \E j \in DOMAIN s : j # n /\ t[i] = s[j]
    BY <1>1, <1>2, <1>6
  <2>2. \A j \in DOMAIN s : j # n => \E i \in DOMAIN t : t[i] = s[j]
    <3> SUFFICES ASSUME NEW j \in DOMAIN s, j # n PROVE \E i \in DOMAIN t : t[i] = s[j]
      OBVIOUS
    <3>1. CASE j < n
      BY <1>1, <1>2, <1>6, <3>1
    <3>2. CASE j > n
      <4>1. j - 1 \in DOMAIN t /\ t[j - 1] = s[j]
        BY <1>1, <1>2, <1>6, <3>2
      <4> QED
        BY <4>1
    <3> QED
      BY <1>1, <1>2, <3>1, <3>2
  <2>3. \A j \in DOMAIN s : s[j].id = id => j = n
    BY <1>1, <1>7 DEF Once
  <2>4. Named(t) = Named(s) \ {id}
    BY <2>1, <2>2, <2>3, <1>1 DEF Named
  <2>5. Once(t)
    <3> SUFFICES ASSUME NEW i \in DOMAIN t, NEW j \in DOMAIN t, t[i].id = t[j].id PROVE i = j
      BY DEF Once
    <3>1. (IF i < n THEN i ELSE i + 1) = (IF j < n THEN j ELSE j + 1)
      BY <1>1, <1>2, <1>6, <1>7 DEF Once
    <3> QED
      BY <1>1, <1>2, <1>6, <3>1
  <2> QED
    BY <2>4, <2>5
<1> QED
  BY <1>6, <1>7 DEF t

\* What is left of a pool that may lose the provider is routed to.
LEMMA LeftRouted ==
    ASSUME NEW s \in Seq(Provider), NEW id \in Named(s), NEW r \in Named(s), Once(s),
           ~(Len(s) <= 1 /\ r = id)
    PROVE  (IF r = id THEN Router!First(Router!Rest(s, id)) ELSE r)
                \in Named(Router!Rest(s, id))
<1> DEFINE t == Router!Rest(s, id)
<1>1. t \in Seq(Provider) /\ Named(t) = Named(s) \ {id}
  BY CutOut
<1>2. CASE r = id
  <2>1. PICK n \in DOMAIN s : s[n].id = id
    BY DEF Named
  <2>2. DOMAIN s = 1..Len(s) /\ Len(s) \in Nat
    OBVIOUS
  <2>3. PICK m \in DOMAIN s : m # n
    <3>1. IF n = 1 THEN 2 \in DOMAIN s ELSE 1 \in DOMAIN s
      BY <1>2, <2>2
    <3> QED
      BY <3>1
  <2>4. s[m].id \in Named(t)
    BY <1>1, <2>1, <2>3 DEF Named, Once
  <2>5. t # <<>>
    BY <2>4 DEF Named
  <2>6. 1 \in DOMAIN t
    BY <1>1, <2>5
  <2> HIDE DEF t
  <2>7. Router!First(t) = t[1].id
    BY <2>5 DEF Router!First
  <2> QED
    BY <1>2, <2>6, <2>7 DEF Named, t
<1>3. CASE r # id
  BY <1>1, <1>3
<1> QED
  BY <1>2, <1>3


\* One pool and its route change.
LEMMA PoolStep ==
    ASSUME RouterTyped, NEW k \in Router!Kinds, NEW s \in Seq(Provider), NEW r,
           pool' = [pool EXCEPT ![k] = s], route' = [route EXCEPT ![k] = r]
    PROVE  /\ pool' \in Pools /\ Routed(route')
           /\ (Leads(pool, route) /\ Once(s) /\ r \in Named(s)) => Leads(pool', route')
           /\ k # "embedding" => /\ pool'["embedding"] = pool["embedding"]
                                 /\ route'["embedding"] = route["embedding"]
<1>1. pool' \in Pools
  BY DEF RouterTyped, Pools
<1>2. Routed(route')
  BY DEF RouterTyped, Routed
<1>3. \A j \in Router!Kinds : /\ pool'[j] = IF j = k THEN s ELSE pool[j]
                              /\ route'[j] = IF j = k THEN r ELSE route[j]
  BY DEF RouterTyped, Pools, Routed
<1>4. "embedding" \in Router!Kinds
  BY DEF Router!Kinds
<1> QED
  BY <1>1, <1>2, <1>3, <1>4 DEF Leads

LEMMA RouteKept ==
    ASSUME RouterTyped, NEW k \in Router!Kinds, UNCHANGED route
    PROVE  route' = [route EXCEPT ![k] = route[k]]
  BY DEF RouterTyped, Routed

LEMMA HasNamed ==
    ASSUME NEW k, NEW id
    PROVE  Router!Has(k, id) <=> id \in Named(pool[k])
  BY DEF Router!Has, Named

\* The memory is asked again only about its own pool and its own route.
LEMMA SameAnswer ==
    ASSUME pool'["embedding"] = pool["embedding"], route'["embedding"] = route["embedding"]
    PROVE  Router!Resolve(pool', route', "embedding", "")
             = Router!Resolve(pool, route, "embedding", "")
  BY DEF Router!Resolve

LEMMA Rebound ==
    ASSUME Router!MemoryFollowsRouter, NEW k, Router!Rebind(k), UNCHANGED refused,
           k # "embedding" => /\ pool'["embedding"] = pool["embedding"]
                              /\ route'["embedding"] = route["embedding"]
    PROVE  Router!MemoryFollowsRouter'
<1> DEFINE answer == Router!Resolve(pool, route, "embedding", "")
<1>1. embedding' = IF k = "embedding" /\ embedding # Router!Stopped
                   THEN answer' ELSE embedding
  BY DEF Router!Rebind
<1>2. k # "embedding" => answer' = answer
  BY SameAnswer
<1>3. embedding = Router!Stopped \/ refused \/ embedding = answer
  BY DEF Router!MemoryFollowsRouter
<1> HIDE DEF answer
<1>4. embedding' = Router!Stopped \/ refused' \/ embedding' = answer'
  BY <1>1, <1>2, <1>3
<1> QED
  BY <1>4 DEF answer, Router!MemoryFollowsRouter

\* A page saves the pools and the routes, or its write fails.
LEMMA RouterSaved ==
    ASSUME RouterTyped, pool' \in Pools, Routed(route'),
           NEW everything \in BOOLEAN, Router!Save(everything),
           ~everything => pool'["embedding"] = pool["embedding"]
    PROVE  /\ RouterTyped'
           /\ (~routerTorn /\ file.pool = pool) =>
                routerTorn' \/ (file'.pool = pool' /\ file'.route = route')
           /\ routerTorn => routerTorn'
<1>1. edits' \in Nat
  BY DEF RouterTyped, Router!Save, Router!Edit
<1>2. CASE routerTorn' = TRUE /\ UNCHANGED file
  BY <1>1, <1>2 DEF RouterTyped
<1>3. CASE /\ UNCHANGED routerTorn /\ everything
           /\ file' = [file EXCEPT !.pool = pool', !.route = route', !.fallback = fallback]
  <2>1. /\ file' = [f \in FileFields |-> file'[f]]
        /\ file'.pool = pool' /\ file'.route = route'
    BY <1>3 DEF RouterTyped, FileFields
  <2> QED
    BY <1>1, <1>3, <2>1 DEF RouterTyped
<1>4. CASE /\ UNCHANGED routerTorn /\ ~everything
           /\ file' = [file EXCEPT !.pool["chat"] = pool'["chat"], !.route = route']
  <2>1. /\ file' = [f \in FileFields |-> file'[f]]
        /\ file'.pool = [file.pool EXCEPT !["chat"] = pool'["chat"]]
        /\ file'.route = route'
    BY <1>4 DEF RouterTyped, FileFields
  <2>2. file'.pool \in Pools
    BY <2>1 DEF RouterTyped, Pools, Router!Kinds
  <2>3. file.pool = pool => file'.pool = pool'
    BY <1>4, <2>1 DEF RouterTyped, Pools, Router!Kinds
  <2> QED
    BY <1>1, <1>4, <2>1, <2>2, <2>3 DEF RouterTyped
<1> QED
  BY <1>2, <1>3, <1>4 DEF Router!Save, Router!Edit


\* A request that saves what it changed and rebinds the memory.
LEMMA PageStep ==
    ASSUME RouterInv, NEW k \in Router!Kinds, NEW s \in Seq(Provider), NEW r,
           pool' = [pool EXCEPT ![k] = s], route' = [route EXCEPT ![k] = r],
           ~routerTorn => Once(s) /\ r \in Named(s),
           NEW everything \in Router!BothPages(k), Router!Save(everything),
           Router!Rebind(k), UNCHANGED refused
    PROVE  RouterInv'
<1>1. everything \in BOOLEAN /\ (~everything => k # "embedding")
  BY DEF Router!BothPages
<1>2. /\ pool' \in Pools /\ Routed(route')
      /\ (Leads(pool, route) /\ Once(s) /\ r \in Named(s)) => Leads(pool', route')
      /\ k # "embedding" => /\ pool'["embedding"] = pool["embedding"]
                            /\ route'["embedding"] = route["embedding"]
  <2>1. RouterTyped
    BY DEF RouterInv
  <2> QED
    BY <2>1, PoolStep
<1>3. /\ RouterTyped'
      /\ (~routerTorn /\ file.pool = pool) =>
           routerTorn' \/ (file'.pool = pool' /\ file'.route = route')
      /\ routerTorn => routerTorn'
  <2>1. RouterTyped
    BY DEF RouterInv
  <2> QED
    BY <1>1, <1>2, <2>1, RouterSaved
<1>4. FileLeads'
  <2>1. ~routerTorn' => ~routerTorn
    BY <1>3
  <2> QED
    BY <1>2, <1>3, <2>1 DEF RouterInv, FileLeads, Leads
<1>5. Router!MemoryFollowsRouter'
  BY <1>2, Rebound DEF RouterInv
<1> QED
  BY <1>3, <1>4, <1>5 DEF RouterInv

LEMMA RouterFacts ==
    ASSUME RouterInv, NEW k \in Router!Kinds
    PROVE  /\ pool[k] \in Seq(Provider)
           /\ ~routerTorn => Once(pool[k]) /\ route[k] \in Named(pool[k])
  BY DEF RouterInv, RouterTyped, Pools, FileLeads, Leads

LEMMA AddProviderStep ==
    ASSUME RouterInv, NEW k \in Router!Kinds, NEW id \in Ids, Router!AddProvider(k, id)
    PROVE  RouterInv'
<1> DEFINE q == [id |-> id, object |-> Router!Made, on |-> TRUE]
           s == Append(pool[k], q)
           r == IF route[k] = "" THEN id ELSE route[k]
<1>1. PICK everything \in Router!BothPages(k) : Router!Save(everything)
  BY DEF Router!AddProvider
<1>2. q \in Provider /\ q.id = id
  BY DEF RouterInv, RouterTyped, Router!Made, Provider
<1>3. /\ pool' = [pool EXCEPT ![k] = s] /\ route' = [route EXCEPT ![k] = r]
      /\ Router!Rebind(k) /\ UNCHANGED refused /\ id \notin Named(pool[k])
  <2>1. route' = [route EXCEPT ![k] = IF @ = "" THEN id ELSE @]
    BY DEF Router!AddProvider
  <2>2. pool' = [pool EXCEPT ![k] = Append(@, q)]
    BY DEF Router!AddProvider
  <2> QED
    BY <2>1, <2>2, HasNamed DEF Router!AddProvider
<1>4. pool[k] \in Seq(Provider) /\ (~routerTorn => Once(pool[k]) /\ route[k] \in Named(pool[k]))
  BY RouterFacts
<1> HIDE DEF q
<1>5. s \in Seq(Provider) /\ Named(s) = Named(pool[k]) \cup {id}
      /\ (Once(pool[k]) => Once(s))
  BY <1>2, <1>3, <1>4, AddedLast
<1>6. ~routerTorn => Once(s) /\ r \in Named(s)
  BY <1>4, <1>5
<1> HIDE DEF s, r
<1> QED
  BY <1>1, <1>3, <1>5, <1>6, PageStep

LEMMA UpdateProviderStep ==
    ASSUME RouterInv, NEW k \in Router!Kinds, NEW id \in Ids, Router!UpdateProvider(k, id)
    PROVE  RouterInv'
<1>1. PICK everything \in Router!BothPages(k) : Router!Save(everything)
  BY DEF Router!UpdateProvider
<1>2. PICK on \in BOOLEAN :
        pool' = [pool EXCEPT ![k] = [i \in DOMAIN @ |->
                   IF @[i].id = id
                   THEN [id |-> id, object |-> Router!Made, on |-> on] ELSE @[i]]]
  BY DEF Router!UpdateProvider
<1> DEFINE q == [id |-> id, object |-> Router!Made, on |-> on]
           s == [i \in DOMAIN pool[k] |-> IF pool[k][i].id = id THEN q ELSE pool[k][i]]
<1>3. q \in Provider /\ q.id = id
  BY DEF RouterInv, RouterTyped, Router!Made, Provider
<1>4. /\ pool' = [pool EXCEPT ![k] = s]
      /\ Router!Rebind(k) /\ UNCHANGED refused /\ UNCHANGED route
  BY <1>2 DEF Router!UpdateProvider
<1>5. pool[k] \in Seq(Provider) /\ (~routerTorn => Once(pool[k]) /\ route[k] \in Named(pool[k]))
  BY RouterFacts
<1>6. route' = [route EXCEPT ![k] = route[k]]
  BY <1>4, RouteKept DEF RouterInv
<1> HIDE DEF q
<1>7. s = [i \in DOMAIN pool[k] |-> IF pool[k][i].id = q.id THEN q ELSE pool[k][i]]
  BY <1>3
<1> HIDE DEF s
<1>8. s \in Seq(Provider) /\ Named(s) = Named(pool[k]) /\ (Once(pool[k]) => Once(s))
  BY <1>3, <1>5, <1>7, Replaced
<1>9. ~routerTorn => Once(s) /\ route[k] \in Named(s)
  BY <1>5, <1>8
<1> QED
  BY <1>1, <1>4, <1>6, <1>8, <1>9, PageStep

\* A deletion that is allowed leaves a pool and a route into it.
LEMMA RemovedStep ==
    ASSUME RouterInv, NEW k \in Router!Kinds, NEW id \in Ids,
           Router!MayDelete(k, id), Router!Removed(k, id)
    PROVE  \E s \in Seq(Provider) : \E r :
             /\ pool' = [pool EXCEPT ![k] = s] /\ route' = [route EXCEPT ![k] = r]
             /\ ~routerTorn => Once(s) /\ r \in Named(s)
<1> DEFINE s == Router!Rest(pool[k], id)
           r == IF route[k] = id THEN Router!First(s) ELSE route[k]
<1>1. /\ id \in Named(pool[k]) /\ ~(Len(pool[k]) <= 1 /\ route[k] = id)
      /\ pool' = [pool EXCEPT ![k] = s]
  BY HasNamed DEF Router!MayDelete, Router!Removed
<1>2. route' = [route EXCEPT ![k] = r]
  <2>1. route' = [route EXCEPT ![k] = IF @ = id THEN Router!First(s) ELSE @]
    BY DEF Router!Removed
  <2> QED
    BY <2>1
<1>3. pool[k] \in Seq(Provider) /\ (~routerTorn => Once(pool[k]) /\ route[k] \in Named(pool[k]))
  BY RouterFacts
<1>4. s \in Seq(Provider) /\ (Once(pool[k]) => Once(s))
  BY <1>1, <1>3, CutOut
<1>5. ~routerTorn => r \in Named(s)
  BY <1>1, <1>3, LeftRouted
<1> HIDE DEF s, r
<1> QED
  BY <1>1, <1>2, <1>3, <1>4, <1>5

LEMMA DeleteByTypeStep ==
    ASSUME RouterInv, NEW k \in Router!Kinds, NEW id \in Ids, Router!DeleteByType(k, id)
    PROVE  RouterInv'
<1>1. PICK s \in Seq(Provider) : \E r :
        /\ pool' = [pool EXCEPT ![k] = s] /\ route' = [route EXCEPT ![k] = r]
        /\ ~routerTorn => Once(s) /\ r \in Named(s)
  BY RemovedStep DEF Router!DeleteByType
<1>2. PICK r :
        /\ pool' = [pool EXCEPT ![k] = s] /\ route' = [route EXCEPT ![k] = r]
        /\ ~routerTorn => Once(s) /\ r \in Named(s)
  BY <1>1
<1>3. Router!Save(TRUE) /\ Router!Rebind(k) /\ UNCHANGED refused
  BY DEF Router!DeleteByType
<1>4. TRUE \in Router!BothPages(k)
  BY DEF Router!BothPages
<1> QED
  BY <1>2, <1>3, <1>4, PageStep

LEMMA SetRouteStep ==
    ASSUME RouterInv, NEW k \in Router!Kinds, NEW id \in Ids, Router!SetRoute(k, id)
    PROVE  RouterInv'
<1>1. PICK everything \in Router!BothPages(k) : Router!Save(everything)
  BY DEF Router!SetRoute
<1>2. /\ route' = [route EXCEPT ![k] = id] /\ UNCHANGED pool
      /\ Router!Rebind(k) /\ UNCHANGED refused /\ id \in Named(pool[k])
  BY HasNamed DEF Router!SetRoute
<1>3. pool[k] \in Seq(Provider) /\ (~routerTorn => Once(pool[k]))
  BY RouterFacts
<1>4. pool' = [pool EXCEPT ![k] = pool[k]]
  BY <1>2 DEF RouterInv, RouterTyped, Pools
<1> QED
  BY <1>1, <1>2, <1>3, <1>4, PageStep


\* What a deletion or a choice of the default leaves alone: the memory, and
\* the pool and the route it follows.
LEMMA FollowsStill ==
    ASSUME Router!MemoryFollowsRouter, UNCHANGED embedding, refused => refused',
           pool'["embedding"] = pool["embedding"], route'["embedding"] = route["embedding"]
    PROVE  Router!MemoryFollowsRouter'
  BY SameAnswer DEF Router!MemoryFollowsRouter

LEMMA OneEdit ==
    ASSUME RouterInv, Router!Edit
    PROVE  edits' \in Nat
  BY DEF RouterInv, RouterTyped, Router!Edit

LEMMA DeleteProviderStep ==
    ASSUME RouterInv, NEW id \in Ids, Router!DeleteProvider(id)
    PROVE  RouterInv'
<1>1. "chat" \in Router!Kinds
  BY DEF Router!Kinds
<1>2. PICK s \in Seq(Provider) : \E r :
        /\ pool' = [pool EXCEPT !["chat"] = s] /\ route' = [route EXCEPT !["chat"] = r]
        /\ ~routerTorn => Once(s) /\ r \in Named(s)
  BY <1>1, RemovedStep DEF Router!DeleteProvider
<1>3. PICK r :
        /\ pool' = [pool EXCEPT !["chat"] = s] /\ route' = [route EXCEPT !["chat"] = r]
        /\ ~routerTorn => Once(s) /\ r \in Named(s)
  BY <1>2
<1>4. /\ pool' \in Pools /\ Routed(route')
      /\ (Leads(pool, route) /\ Once(s) /\ r \in Named(s)) => Leads(pool', route')
      /\ pool'["embedding"] = pool["embedding"] /\ route'["embedding"] = route["embedding"]
  <2>1. RouterTyped
    BY DEF RouterInv
  <2> QED
    BY <1>1, <1>3, <2>1, PoolStep
<1>5. /\ file' = [f \in FileFields |-> file'[f]]
      /\ file'.pool = [file.pool EXCEPT !["chat"] = pool'["chat"]]
      /\ file'.route = route'
  BY DEF RouterInv, RouterTyped, FileFields, Router!DeleteProvider
<1>6. edits' \in Nat /\ UNCHANGED <<embedding, refused, routerTorn>>
  <2>1. edits' \in Nat
    BY OneEdit DEF Router!DeleteProvider
  <2>2. UNCHANGED <<embedding, refused, routerTorn>>
    BY DEF Router!DeleteProvider, Router!history
  <2> QED
    BY <2>1, <2>2
<1>7. file'.pool \in Pools
  BY <1>4, <1>5 DEF RouterInv, RouterTyped, Pools, Router!Kinds
<1>8. file.pool = pool => file'.pool = pool'
  BY <1>4, <1>5 DEF RouterInv, RouterTyped, Pools, Router!Kinds
<1>9. RouterTyped'
  BY <1>4, <1>5, <1>6, <1>7 DEF RouterTyped
<1>10. FileLeads'
  BY <1>3, <1>4, <1>5, <1>6, <1>8 DEF RouterInv, FileLeads
<1>11. Router!MemoryFollowsRouter'
  BY <1>4, <1>6, FollowsStill DEF RouterInv
<1> QED
  BY <1>9, <1>10, <1>11 DEF RouterInv

\* A route moves and nothing is saved: it leads where it is allowed to.
LEMMA RouteMoves ==
    ASSUME RouterInv, NEW k \in Router!Kinds, NEW r, r \in Named(pool[k]) \/ r = route[k],
           route' = [route EXCEPT ![k] = r], UNCHANGED <<pool, routerTorn>>,
           edits' \in Nat, file' = [f \in FileFields |-> file'[f]],
           file'.pool = file.pool, file'.route = file.route
    PROVE  RouterTyped' /\ FileLeads'
<1>1. /\ pool' \in Pools /\ Routed(route')
      /\ (Leads(pool, route) /\ Once(pool[k]) /\ r \in Named(pool[k])) => Leads(pool', route')
  <2>1. RouterTyped
    BY DEF RouterInv
  <2>2. pool[k] \in Seq(Provider) /\ pool' = [pool EXCEPT ![k] = pool[k]]
    BY DEF RouterInv, RouterTyped, Pools
  <2> QED
    BY <2>1, <2>2, PoolStep
<1>2. ~routerTorn => Once(pool[k]) /\ r \in Named(pool[k])
  BY RouterFacts
<1>3. RouterTyped'
  BY <1>1 DEF RouterInv, RouterTyped
<1>4. FileLeads'
  BY <1>1, <1>2 DEF RouterInv, FileLeads
<1> QED
  BY <1>3, <1>4

LEMMA RefuseRouteStep ==
    ASSUME RouterInv, NEW k \in Router!Kinds, NEW id \in Ids, Router!RefuseRoute(k, id)
    PROVE  RouterInv'
<1>1. /\ id \in Named(pool[k]) /\ route' = [route EXCEPT ![k] = id]
      /\ UNCHANGED <<pool, file, routerTorn>> /\ refused' = TRUE
  BY HasNamed DEF Router!RefuseRoute
<1>2. edits' \in Nat
  BY OneEdit DEF Router!RefuseRoute
<1>3. file' = [f \in FileFields |-> file'[f]]
  BY <1>1 DEF RouterInv, RouterTyped
<1>4. RouterTyped' /\ FileLeads'
  BY <1>1, <1>2, <1>3, RouteMoves
<1>5. Router!MemoryFollowsRouter'
  BY <1>1 DEF Router!MemoryFollowsRouter
<1> QED
  BY <1>4, <1>5 DEF RouterInv

\* The default: the route of the chat models follows it when it is in the pool.
LEMMA DefaultStep ==
    ASSUME RouterInv, NEW id, UNCHANGED <<pool, embedding, refused, routerTorn>>,
           route' = [route EXCEPT !["chat"] = IF Router!Defaulted(id) THEN id ELSE @],
           edits' \in Nat, file' = [f \in FileFields |-> file'[f]],
           file'.pool = file.pool, file'.route = file.route
    PROVE  RouterInv'
<1> DEFINE r == IF Router!Defaulted(id) THEN id ELSE route["chat"]
<1>1. "chat" \in Router!Kinds /\ route' = [route EXCEPT !["chat"] = r]
  BY DEF Router!Kinds
<1>2. r \in Named(pool["chat"]) \/ r = route["chat"]
  BY HasNamed DEF Router!Defaulted
<1> HIDE DEF r
<1>3. RouterTyped' /\ FileLeads'
  BY <1>1, <1>2, RouteMoves
<1>4. route'["embedding"] = route["embedding"]
  BY <1>1 DEF RouterInv, RouterTyped, Routed, Router!Kinds
<1>5. Router!MemoryFollowsRouter'
  BY <1>4, FollowsStill DEF RouterInv
<1> QED
  BY <1>3, <1>5 DEF RouterInv

LEMMA SaveDefaultsStep ==
    ASSUME RouterInv, Router!SaveDefaults
    PROVE  RouterInv'
<1>1. PICK id \in Ids \cup {""}, allow \in BOOLEAN :
        /\ file' = [file EXCEPT !.default = id, !.fallback = allow]
        /\ route' = [route EXCEPT !["chat"] = IF Router!Defaulted(id) THEN id ELSE @]
  BY DEF Router!SaveDefaults
<1>2. UNCHANGED <<pool, embedding, refused, routerTorn>> /\ edits' \in Nat
  <2>1. edits' \in Nat
    BY OneEdit DEF Router!SaveDefaults
  <2>2. UNCHANGED <<pool, embedding, refused, routerTorn>>
    BY DEF Router!SaveDefaults, Router!account, Router!history
  <2> QED
    BY <2>1, <2>2
<1>3. /\ file' = [f \in FileFields |-> file'[f]]
      /\ file'.pool = file.pool /\ file'.route = file.route
  BY <1>1 DEF RouterInv, RouterTyped, FileFields
<1> QED
  BY <1>1, <1>2, <1>3, DefaultStep

LEMMA ReloadDefaultsStep ==
    ASSUME RouterInv, Router!ReloadDefaults
    PROVE  RouterInv'
<1>1. /\ route' = [route EXCEPT !["chat"] =
                     IF Router!Defaulted(file.default) THEN file.default ELSE @]
      /\ UNCHANGED <<pool, file, embedding, refused, routerTorn>>
  BY DEF Router!ReloadDefaults, Router!account, Router!history
<1>2. edits' \in Nat
  BY OneEdit DEF Router!ReloadDefaults
<1>3. file' = [f \in FileFields |-> file'[f]]
  BY <1>1 DEF RouterInv, RouterTyped
<1> QED
  BY <1>1, <1>2, <1>3, DefaultStep

LEMMA BindLlmStep ==
    ASSUME RouterInv, Router!BindLlm
    PROVE  RouterInv'
<1>1. PICK id \in Ids \cup {""} : file' = [file EXCEPT !.llm = id]
  BY DEF Router!BindLlm
<1>2. UNCHANGED <<pool, route, embedding, refused, routerTorn>> /\ edits' \in Nat
  BY OneEdit DEF Router!BindLlm, Router!history
<1>3. /\ file' = [f \in FileFields |-> file'[f]]
      /\ file'.pool = file.pool /\ file'.route = file.route
  BY <1>1 DEF RouterInv, RouterTyped, FileFields
<1>4. RouterTyped' /\ FileLeads'
  BY <1>2, <1>3 DEF RouterInv, RouterTyped, FileLeads
<1>5. Router!MemoryFollowsRouter'
  BY <1>2, FollowsStill DEF RouterInv
<1> QED
  BY <1>4, <1>5 DEF RouterInv

\* A stopped account has no memory; one that starts asks the router.
LEMMA AccountStep ==
    ASSUME RouterInv, Router!StopAccount \/ Router!StartAccount
    PROVE  RouterInv'
<1>1. UNCHANGED <<edits, pool, route, file, refused, routerTorn>>
  BY DEF Router!StopAccount, Router!StartAccount, Router!panel, Router!history
<1>2. RouterTyped' /\ FileLeads'
  BY <1>1 DEF RouterInv, RouterTyped, FileLeads
<1>3. \/ embedding' = Router!Stopped
      \/ embedding' = Router!Resolve(pool, route, "embedding", "")
  BY DEF Router!StopAccount, Router!StartAccount
<1>4. Router!Resolve(pool', route', "embedding", "")
        = Router!Resolve(pool, route, "embedding", "")
  BY <1>1, SameAnswer
<1>5. Router!MemoryFollowsRouter'
  BY <1>3, <1>4 DEF Router!MemoryFollowsRouter
<1> QED
  BY <1>2, <1>5 DEF RouterInv

\* What is loaded leads somewhere, so no route is replaced.
LEMMA BootStep ==
    ASSUME RouterInv, Router!Boot
    PROVE  RouterInv'
<1> DEFINE named(k) == {p \in Router!ToSet(file.pool[k]) : p.id = file.route[k]}
<1>1. /\ pool' = file.pool /\ embedding' = Router!Stopped
      /\ UNCHANGED <<edits, file, routerTorn>>
  BY DEF Router!Boot
<1>2. PICK other : route' = [k \in Router!Kinds |->
        IF named(k) # {} THEN file.route[k] ELSE other[k]]
  <2> DEFINE rest == [k \in Router!Kinds |->
               IF Router!Enabled(file.pool[k]) # <<>>
               THEN Router!First(Router!Enabled(file.pool[k]))
               ELSE IF file.route[k] = "" THEN Router!First(file.pool[k])
               ELSE file.route[k]]
  <2>1. route' = [k \in Router!Kinds |->
          IF named(k) # {} THEN file.route[k] ELSE rest[k]]
    BY DEF Router!Boot
  <2> HIDE DEF rest, named
  <2> QED
    BY <2>1
<1>3. ASSUME NEW k \in Router!Kinds, file.route[k] \in Named(file.pool[k])
      PROVE  named(k) # {}
  BY <1>3 DEF Named, Router!ToSet
<1> HIDE DEF named
<1>4. Routed(route')
  BY <1>2 DEF Routed
<1>5. RouterTyped'
  BY <1>1, <1>4 DEF RouterInv, RouterTyped
<1>6. FileLeads'
  <2> SUFFICES ASSUME ~routerTorn
               PROVE  /\ file.pool = pool' /\ Leads(pool', route')
                      /\ Leads(pool', file.route)
    BY <1>1 DEF FileLeads
  <2>1. Leads(file.pool, file.route)
    BY DEF RouterInv, FileLeads
  <2>2. \A k \in Router!Kinds : route'[k] = file.route[k]
    BY <1>2, <1>3, <2>1 DEF Leads
  <2> QED
    BY <1>1, <2>1, <2>2 DEF Leads
<1>7. Router!MemoryFollowsRouter'
  BY <1>1 DEF Router!MemoryFollowsRouter
<1> QED
  BY <1>5, <1>6, <1>7 DEF RouterInv


LEMMA RouterStart == Init => RouterInv
<1> SUFFICES ASSUME Init PROVE RouterInv
  OBVIOUS
<1>1. PICK id \in Ids :
        pool = [k \in Router!Kinds |->
                 <<[id |-> id, object |-> IF k = "chat" THEN 1 ELSE 2, on |-> TRUE]>>]
  BY DEF Init, Router!Init
<1>2. /\ edits = 0 /\ route = [k \in Router!Kinds |-> pool[k][1].id]
      /\ file = [pool |-> pool, route |-> route, fallback |-> FALSE, default |-> "",
                 llm |-> ""]
      /\ embedding = 2
  BY DEF Init, Router!Init
<1>3. \A k \in Router!Kinds :
        /\ pool[k] \in Seq(Provider) /\ Once(pool[k]) /\ route[k] \in Named(pool[k])
  <2> TAKE k \in Router!Kinds
  <2> DEFINE q == [id |-> id, object |-> IF k = "chat" THEN 1 ELSE 2, on |-> TRUE]
  <2>1. q \in Provider /\ q.id = id
    BY DEF Provider
  <2>2. pool[k] = <<q>>
    BY <1>1
  <2> HIDE DEF q
  <2>3. /\ pool[k] \in Seq(Provider) /\ DOMAIN pool[k] = {1} /\ pool[k][1] = q
    BY <2>1, <2>2
  <2> QED
    BY <1>2, <2>3 DEF Once, Named
<1>4. pool \in Pools
  BY <1>1, <1>3 DEF Pools
<1>5. file.pool = pool /\ file.route = route /\ file = [f \in FileFields |-> file[f]]
  BY <1>2 DEF FileFields
<1>6. Routed(route)
  BY <1>2 DEF Routed
<1>7. RouterTyped
  BY <1>2, <1>4, <1>5, <1>6 DEF RouterTyped
<1>8. FileLeads
  BY <1>3, <1>5 DEF FileLeads, Leads
<1>9. Router!Resolve(pool, route, "embedding", "") = 2
  <2> DEFINE q == [id |-> id, object |-> 2, on |-> TRUE]
             entries == pool["embedding"]
             on(name) == {p \in Router!ToSet(entries) : p.id = name /\ p.on}
  <2>1. entries = <<q>> /\ route["embedding"] = id
    BY <1>1, <1>2 DEF Router!Kinds
  <2>2. Router!ToSet(entries) = {q} /\ q.object = 2 /\ q.on /\ q.id = id
    <3>1. q.object = 2 /\ q.on /\ q.id = id
      OBVIOUS
    <3> HIDE DEF q, entries
    <3>2. DOMAIN entries = {1} /\ entries[1] = q
      BY <2>1
    <3>3. Router!ToSet(entries) = {q}
      BY <3>2 DEF Router!ToSet
    <3> QED
      BY <3>1, <3>3
  <2> HIDE DEF q, entries
  <2>3. on(id) = {q} /\ (on("") = {} \/ on("") = {q})
    BY <2>2
  <2>4. Router!Resolve(pool, route, "embedding", "") =
          IF on("") # {} THEN (CHOOSE p \in on("") : TRUE).object
          ELSE IF on(route["embedding"]) # {}
               THEN (CHOOSE p \in on(route["embedding"]) : TRUE).object
          ELSE IF Router!Enabled(entries) = <<>> THEN Router!None
          ELSE Router!Enabled(entries)[1].object
    BY DEF Router!Resolve, entries
  <2>5. (CHOOSE p \in {q} : TRUE) = q
    OBVIOUS
  <2> HIDE DEF on
  <2> QED
    BY <2>1, <2>2, <2>3, <2>4, <2>5
<1>10. Router!MemoryFollowsRouter
  BY <1>2, <1>9 DEF Router!MemoryFollowsRouter
<1> QED
  BY <1>7, <1>8, <1>10 DEF RouterInv

LEMMA RouterStep == ASSUME RouterInv, Router!Next PROVE RouterInv'
  BY AddProviderStep, UpdateProviderStep, DeleteByTypeStep, SetRouteStep, RefuseRouteStep,
     DeleteProviderStep, SaveDefaultsStep, ReloadDefaultsStep, BindLlmStep, AccountStep,
     BootStep DEF Router!Next

LEMMA RouterLeft == ASSUME RouterInv, UNCHANGED routerVars PROVE RouterInv'
<1>1. RouterTyped' /\ FileLeads'
  BY DEF routerVars, RouterInv, RouterTyped, FileLeads
<1>2. Router!MemoryFollowsRouter'
  BY FollowsStill DEF routerVars, RouterInv
<1> QED
  BY <1>1, <1>2 DEF RouterInv

LEMMA RouterKept == Spec => []RouterInv
<1>1. ASSUME RouterInv, [Next]_vars PROVE RouterInv'
  <2>1. CASE RunSettings
    BY <1>1, <2>1, RouterLeft DEF RunSettings
  <2>2. CASE RunLife
    BY <1>1, <2>2, RouterLeft DEF RunLife
  <2>3. CASE RunRouter
    BY <1>1, <2>3, RouterStep DEF RunRouter
  <2>4. CASE UNCHANGED vars
    BY <1>1, <2>4, RouterLeft DEF vars
  <2> QED
    BY <1>1, <2>1, <2>2, <2>3, <2>4 DEF Next
<1> QED
  BY <1>1, RouterStart, PTL DEF Spec

\* "不能删除最后一个 Provider" (model_routing.py:309) and "热重绑存活 MemoryBrain"
\* (model_routing.py:82): while no write failed, a kind that has a provider
\* keeps one, and the memory of a running account embeds with the one the router
\* names now, whatever the two pages edit, for any identifiers.
THEOREM RoutesHoldAlways == Spec => []RoutesHold
<1>1. RouterInv => RoutesHold
  <2> SUFFICES ASSUME RouterInv PROVE RoutesHold
    OBVIOUS
  <2>1. ASSUME ~routerTorn, NEW k \in Router!Kinds PROVE pool[k] # <<>>
    <3>1. Named(pool[k]) # {} /\ pool[k] \in Seq(Provider)
      BY <2>1, RouterFacts
    <3> QED
      BY <3>1 DEF Named
  <2> QED
    BY <2>1 DEF RoutesHold, RouterInv, Router!NeverWithout
<1> QED
  BY <1>1, RouterKept, PTL
=============================================================================
