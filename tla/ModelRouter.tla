---------------------------- MODULE ModelRouter ----------------------------
(***************************************************************************)
(* Which model answers (src/bilibot/llm/router.py, llm/manager.py).  The   *)
(* router keeps one pool of providers and one route per kind of model; two *)
(* pages of the panel edit them (src/bilibot/api/llm_providers.py for chat *)
(* models, src/bilibot/api/model_routing.py for every kind), the page of   *)
(* the configuration edits the defaults.                                   *)
(*                                                                         *)
(* A running account keeps the chat provider it was given when it started, *)
(* and its memory the embedding provider.  A provider that is edited is an *)
(* object of its own, with a number of its own.                            *)
(***************************************************************************)
EXTENDS Integers, Sequences, SequencesExt

CONSTANTS
    Ids,            \* identifiers of providers
    MaxEdits,       \* requests of the panel (bound)
    MaxTroubles     \* failed writes and restarts (bound)

VARIABLES
    edits, troubles,
    pool,       \* [Kinds -> Seq([id, object, on])]
    route,      \* [Kinds -> id or ""]
    fallback,   \* _allow_llm_fallback
    file,       \* config.yaml: [pool, route, fallback, default, llm]
    llm,        \* llm_id of the account, or ""
    chat,       \* the object a running account holds, None or Stopped
    embedding,  \* the object its memory holds, None or Stopped
    refused,    \* history: an update of the routes was refused half way
    torn        \* history: a write failed

panel == <<edits, troubles>>
account == <<llm, chat, embedding>>
history == <<refused, torn>>
vars == <<panel, pool, route, fallback, file, account, history>>

Kinds == {"chat", "embedding"}
None == 0
Stopped == -1

Has(k, id) == \E i \in DOMAIN pool[k] : pool[k][i].id = id
Entry(k, id) == CHOOSE p \in ToSet(pool[k]) : p.id = id
Enabled(entries) == SelectSeq(entries, LAMBDA p : p.on)
First(entries) == IF entries = <<>> THEN "" ELSE entries[1].id

\* A pool is a dictionary: an identifier has one place, and is cut out there.
Place(entries, id) == CHOOSE i \in DOMAIN entries : entries[i].id = id
Rest(entries, id) == RemoveAt(entries, Place(entries, id))

\* resolve: the one that is named, the one that is routed, the first that is on.
Resolve(pools, routes, k, id) ==
    LET On(name) == {p \in ToSet(pools[k]) : p.id = name /\ p.on} IN
    IF On(id) # {} THEN (CHOOSE p \in On(id) : TRUE).object
    ELSE IF On(routes[k]) # {} THEN (CHOOSE p \in On(routes[k]) : TRUE).object
    ELSE IF Enabled(pools[k]) = <<>> THEN None ELSE Enabled(pools[k])[1].object

\* resolve_provider: without leave to fall back, an account whose provider is
\* gone or off has none.
ForAccount(id) ==
    IF id = "" THEN Resolve(pool, route, "chat", "")
    ELSE IF Has("chat", id) /\ Entry("chat", id).on THEN Entry("chat", id).object
    ELSE IF fallback THEN Resolve(pool, route, "chat", "") ELSE None

Made == edits + 3

Init ==
    /\ edits = 0 /\ troubles = 0
    /\ \E id \in Ids :
         pool = [k \in Kinds |->
                    <<[id |-> id, object |-> IF k = "chat" THEN 1 ELSE 2, on |-> TRUE]>>]
    /\ route = [k \in Kinds |-> pool[k][1].id]
    /\ fallback = FALSE /\ llm = ""
    /\ file = [pool |-> pool, route |-> route, fallback |-> FALSE, default |-> "", llm |-> ""]
    /\ chat = 1 /\ embedding = 2 /\ refused = FALSE /\ torn = FALSE

-----------------------------------------------------------------------------
Edit == edits < MaxEdits /\ edits' = edits + 1 /\ UNCHANGED troubles

\* _save_to_config of the page for every kind, _save_llm_to_config of the one
\* for chat models.  A failed write is logged and no more.
Save(everything) ==
    \/ /\ Edit
       /\ file' = IF everything
                  THEN [file EXCEPT !.pool = pool', !.route = route', !.fallback = fallback]
                  ELSE [file EXCEPT !.pool["chat"] = pool'["chat"], !.route = route']
       /\ UNCHANGED torn
    \/ /\ edits < MaxEdits /\ edits' = edits + 1
       /\ troubles < MaxTroubles /\ troubles' = troubles + 1
       /\ torn' = TRUE /\ UNCHANGED file

\* An edit of the embedding models rebinds the memory of a running account; an
\* edit of the chat models does not touch what the account holds.
Rebind(k) ==
    /\ embedding' = IF k = "embedding" /\ embedding # Stopped
                    THEN Resolve(pool', route', "embedding", "") ELSE embedding
    /\ UNCHANGED <<llm, chat>>

\* The page for chat models resolves both again.
BothPages(k) == {TRUE} \cup IF k = "chat" THEN {FALSE} ELSE {}

\* add_provider.
AddProvider(k, id) ==
    /\ ~Has(k, id)
    /\ pool' = [pool EXCEPT ![k] = Append(@, [id |-> id, object |-> Made, on |-> TRUE])]
    /\ route' = [route EXCEPT ![k] = IF @ = "" THEN id ELSE @]
    /\ \E everything \in BothPages(k) : Save(everything)
    /\ Rebind(k)
    /\ UNCHANGED <<fallback, refused>>

\* update_provider: a new object in the old one's place, on or off.
UpdateProvider(k, id) ==
    /\ Has(k, id)
    /\ \E on \in BOOLEAN :
         pool' = [pool EXCEPT ![k] = [i \in DOMAIN @ |->
                    IF @[i].id = id THEN [id |-> id, object |-> Made, on |-> on] ELSE @[i]]]
    /\ UNCHANGED route
    /\ \E everything \in BothPages(k) : Save(everything)
    /\ Rebind(k)
    /\ UNCHANGED <<fallback, refused>>

\* Faulty variant: the route stays where it was.
RemovedKeepsRoute(k, id) ==
    /\ Has(k, id)
    /\ pool' = [pool EXCEPT ![k] = Rest(@, id)]
    /\ UNCHANGED route

\* remove_provider.
Removed(k, id) ==
    /\ Has(k, id)
    /\ pool' = [pool EXCEPT ![k] = Rest(@, id)]
    /\ route' = [route EXCEPT ![k] = IF @ = id THEN First(Rest(pool[k], id)) ELSE @]

\* The last of its kind that is routed is not deleted, by either page.
MayDelete(k, id) == ~(Len(pool[k]) <= 1 /\ route[k] = id)

\* delete_by_type: who refers to the provider is not asked.
DeleteByType(k, id) ==
    /\ MayDelete(k, id) /\ Removed(k, id)
    /\ Save(TRUE) /\ Rebind(k)
    /\ UNCHANGED <<fallback, refused>>

\* delete_provider: a provider the account names is deleted by force only, and
\* the name is cleared and saved first.
DeleteProvider(id) ==
    /\ MayDelete("chat", id) /\ Removed("chat", id)
    /\ Edit
    /\ llm' = IF llm = id THEN "" ELSE llm
    /\ file' = [file EXCEPT !.pool["chat"] = pool'["chat"], !.route = route',
                            !.llm = llm']
    /\ UNCHANGED <<fallback, chat, embedding, history>>

\* set_default, and update_routing of one kind.
SetRoute(k, id) ==
    /\ Has(k, id)
    /\ route' = [route EXCEPT ![k] = id] /\ UNCHANGED pool
    /\ \E everything \in BothPages(k) : Save(everything)
    /\ Rebind(k)
    /\ UNCHANGED <<fallback, refused>>

\* update_routing of several kinds whose last names a provider there is not: the
\* ones before it stay set, are not saved, and nothing is rebound.
RefuseRoute(k, id) ==
    /\ Has(k, id) /\ Edit
    /\ route' = [route EXCEPT ![k] = id] /\ refused' = TRUE
    /\ UNCHANGED <<pool, fallback, file, account, torn>>

-----------------------------------------------------------------------------
\* reload_global_defaults: the default becomes the route when it is in the pool.
Defaulted(id) == Has("chat", id)

\* The configuration page: the defaults go to the file and to the router.
SaveDefaults ==
    /\ Edit
    /\ \E id \in Ids \cup {""}, allow \in BOOLEAN :
         /\ file' = [file EXCEPT !.default = id, !.fallback = allow]
         /\ fallback' = allow
         /\ route' = [route EXCEPT !["chat"] = IF Defaulted(id) THEN id ELSE @]
    /\ UNCHANGED <<pool, account, history>>

\* POST /api/config/reload: what the file says, once more.
ReloadDefaults ==
    /\ Edit /\ fallback' = file.fallback
    /\ route' = [route EXCEPT !["chat"] = IF Defaulted(file.default) THEN file.default ELSE @]
    /\ UNCHANGED <<pool, file, account, history>>

\* bind_llm: only a provider that is there and on; the account goes on with what
\* it holds until it is started again.
BindLlm ==
    /\ Edit
    /\ \E id \in Ids \cup {""} :
         /\ id = "" \/ (Has("chat", id) /\ Entry("chat", id).on)
         /\ llm' = id /\ file' = [file EXCEPT !.llm = id]
    /\ UNCHANGED <<pool, route, fallback, chat, embedding, history>>

StopAccount ==
    /\ chat # Stopped /\ chat' = Stopped /\ embedding' = Stopped
    /\ UNCHANGED <<panel, pool, route, fallback, file, llm, history>>

\* AccountInstance.initialize.
StartAccount ==
    /\ chat = Stopped
    /\ chat' = ForAccount(llm) /\ embedding' = Resolve(pool, route, "embedding", "")
    /\ UNCHANGED <<panel, pool, route, fallback, file, llm, history>>

\* The process boots: initialize() of the router reads the file, and a route to
\* nothing is replaced by the first provider that is on, or else the first.
Boot ==
    /\ troubles < MaxTroubles /\ troubles' = troubles + 1
    /\ pool' = file.pool /\ fallback' = file.fallback /\ llm' = file.llm
    /\ route' = [k \in Kinds |->
         LET named == {p \in ToSet(file.pool[k]) : p.id = file.route[k]} IN
         IF named # {} THEN file.route[k]
         ELSE IF Enabled(file.pool[k]) # <<>> THEN First(Enabled(file.pool[k]))
         ELSE IF file.route[k] = "" THEN First(file.pool[k]) ELSE file.route[k]]
    /\ chat' = Stopped /\ embedding' = Stopped /\ refused' = FALSE
    /\ UNCHANGED <<edits, file, torn>>

Next ==
    \/ \E k \in Kinds, id \in Ids :
         \/ AddProvider(k, id) \/ UpdateProvider(k, id) \/ DeleteByType(k, id)
         \/ SetRoute(k, id) \/ RefuseRoute(k, id)
    \/ \E id \in Ids : DeleteProvider(id)
    \/ SaveDefaults \/ ReloadDefaults \/ BindLlm
    \/ StopAccount \/ StartAccount \/ Boot

Spec == Init /\ [][Next]_vars

-----------------------------------------------------------------------------
\* "不能删除最后一个 Provider" (model_routing.py:309, llm_providers.py:168): a kind
\* that has a provider keeps one, whatever was deleted, routed, saved and
\* loaded, because the route always names a provider of the pool (unless a write
\* failed: then a route to nothing may be loaded).
NeverWithout == torn \/ \A k \in Kinds : pool[k] # <<>>

\* "embedding 路由/Provider 变更后，热重绑存活 MemoryBrain" (model_routing.py:82): the
\* memory embeds with the provider the router would give it now, unless a
\* refused update of the routes changed one before it was refused.
MemoryFollowsRouter ==
    embedding = Stopped \/ refused \/ embedding = Resolve(pool, route, "embedding", "")

=============================================================================
