--------------------------- MODULE ProviderSettings ---------------------------
(***************************************************************************)
(* Who may fetch: the settings in the environment                            *)
(* (source-provider-config.ts, scheduled-refresh.ts), the provider registry   *)
(* (source-provider-registry.ts), and those that ask them: the preview and    *)
(* import routes, the list of providers, the status page, the refresh CLI,    *)
(* the scheduler, and the gate of the pipeline itself.                        *)
(*                                                                          *)
(* An environment is a function from the names of variables to texts; a text  *)
(* is a word, with blanks around it or not.                                  *)
(***************************************************************************)
EXTENDS Naturals

CONSTANTS
  Unset,     \* a variable that is not there
  NoWord,     \* the empty word
  ValueOf,   \* ValueOf[w]: the number that a word of digits stands for
  TTL,       \* SCHEDULED_INTERVAL_FLOOR_MS, which is the cache's TTL
  MaxSafe,   \* Number.MAX_SAFE_INTEGER
  MaxDelay   \* the longest delay setInterval can count

ASSUME SettingsAssumption ==
  /\ {"true", "awin", "impact", NoWord} \cap DOMAIN ValueOf = {}
  /\ \A w \in DOMAIN ValueOf : ValueOf[w] \in Nat
  /\ TTL \in Nat \ {0} /\ MaxSafe \in Nat
  /\ MaxDelay \in TTL .. MaxSafe

Providers == {"awin", "impact"}

ReadTrimmed(env, name) == IF env[name] = Unset THEN NoWord ELSE env[name].word

-----------------------------------------------------------------------------
(* The configurations, each read anew for every call.                       *)

Off(reason) == [enabled |-> FALSE, reason |-> reason, apiKey |-> NoWord, accountSid |-> NoWord]
On(key, sid) == [enabled |-> TRUE, reason |-> "none", apiKey |-> key, accountSid |-> sid]

ReadAwinConfig(env) ==
  LET provider == ReadTrimmed(env, "SOURCE_PROVIDER")
      key      == ReadTrimmed(env, "AWIN_API_KEY")
  IN IF ReadTrimmed(env, "SOURCE_PROVIDER_ENABLED") # "true" THEN Off("flag_off")
     ELSE IF provider = NoWord THEN Off("provider_unset")
     ELSE IF provider # "awin" THEN Off("provider_unsupported")
     ELSE IF key = NoWord THEN Off("missing_api_key") ELSE On(key, NoWord)

ReadImpactConfig(env) ==
  LET key == ReadTrimmed(env, "IMPACT_API_KEY")
      sid == ReadTrimmed(env, "IMPACT_ACCOUNT_SID")
  IN IF ReadTrimmed(env, "IMPACT_ENABLED") # "true" THEN Off("flag_off")
     ELSE IF key = NoWord THEN Off("missing_api_key")
     ELSE IF sid = NoWord THEN Off("missing_account_sid") ELSE On(key, sid)

ReadConfig(p, env) == IF p = "awin" THEN ReadAwinConfig(env) ELSE ReadImpactConfig(env)

\* The gates at the head of runProviderPipeline, with impact.com's preflight.
Gate(p, config) ==
  IF ~config.enabled THEN "disabled"
  ELSE IF config.apiKey = NoWord THEN "missing_api_key"
  ELSE IF p = "impact" /\ config.accountSid = NoWord THEN "missing_account_sid" ELSE "open"

-----------------------------------------------------------------------------
(* The registry.                                                            *)

\* AWIN_METADATA and IMPACT_METADATA.
Activation ==
  [awin   |-> [enabled |-> TRUE, previewEnabled |-> TRUE, importEnabled |-> TRUE,
               userExposed |-> TRUE, schedulerSupported |-> TRUE],
   impact |-> [enabled |-> TRUE, previewEnabled |-> TRUE, importEnabled |-> FALSE,
               userExposed |-> FALSE, schedulerSupported |-> FALSE]]

ClassifyActivation(activation, purpose) ==
  LET capable == IF purpose = "preview" THEN activation.previewEnabled
                 ELSE activation.importEnabled
  IN IF ~activation.enabled THEN "provider_disabled"
     ELSE IF ~activation.userExposed THEN "not_user_exposed"
     ELSE IF capable THEN "ok" ELSE "capability_unsupported"

ResolveProvider(id, purpose) ==
  IF id \notin Providers THEN "unknown_provider" ELSE ClassifyActivation(Activation[id], purpose)

\* Faulty variant: a flag that is on counts as configured.
StatusOfFlag(config) ==
  [featureEnabled |-> config.enabled \/ config.reason = "missing_api_key",
   configured     |-> config.enabled \/ config.reason = "missing_api_key"]

ProviderStatusFromConfig(config) ==
  [featureEnabled |-> config.enabled \/ config.reason = "missing_api_key",
   configured     |-> config.enabled]

StatusFor(id, env) ==
  IF id \in Providers THEN ProviderStatusFromConfig(ReadConfig(id, env))
  ELSE [featureEnabled |-> FALSE, configured |-> FALSE]

-----------------------------------------------------------------------------
(* Those that ask.  Each ends with what stopped it, or "open".              *)

\* POST /admin/source-preview/:id, POST /admin/source-import/:id.
RouteCall(id, purpose, env) ==
  IF ResolveProvider(id, purpose) # "ok" THEN ResolveProvider(id, purpose)
  ELSE Gate(id, ReadConfig(id, env))

\* GET /admin/source-providers: the entries, without userExposed.
SourceProviders ==
  [id \in {p \in Providers : Activation[p].userExposed} |->
     [enabled |-> Activation[id].enabled, previewEnabled |-> Activation[id].previewEnabled,
      importEnabled |-> Activation[id].importEnabled]]

\* isSupportedProvider and the configuration of runSourceRefresh.
RefreshCall(id, env) ==
  LET config == ReadAwinConfig(env)
      supported == {p \in Providers : Activation[p].importEnabled} \cap {"awin"}
  IN IF id \notin supported THEN "unknown_provider"
     ELSE IF ~config.enabled THEN config.reason ELSE Gate("awin", config)

\* readScheduledRefreshConfig: the interval, or 0 when the loop does not start.
ScheduledInterval(env) ==
  LET raw == ReadTrimmed(env, "SCHEDULED_REFRESH_INTERVAL_MS")
      parsed == ValueOf[raw]
  IN IF ReadTrimmed(env, "SCHEDULED_REFRESH_ENABLED") # "true" THEN 0
     ELSE IF raw = NoWord THEN TTL
     ELSE IF raw \notin DOMAIN ValueOf \/ parsed = 0 \/ parsed > MaxSafe THEN 0
     ELSE IF parsed < TTL THEN TTL ELSE parsed

\* setInterval of the platform: a delay it cannot count becomes 1.
Period(delay) == IF delay > MaxDelay THEN 1 ELSE delay

\* The providers that a tick asks runSourceRefresh for.
Scheduled(env) ==
  {p \in Providers \cap {"awin"} :
     /\ ScheduledInterval(env) # 0
     /\ Activation[p].enabled /\ Activation[p].schedulerSupported
     /\ ReadConfig(p, env).enabled}

-----------------------------------------------------------------------------
\* The readers of the settings agree, in every environment and for every id: the
\* status page calls a provider configured just when a call of it passes the gate, and
\* never one whose feature it calls off; a provider is offered for a purpose just when
\* the route takes it, and then the route and the CLI get as far as the settings let
\* them; and the scheduler asks for no provider that the CLI's runner would turn away,
\* nor more often than the cache expires, for an interval that the timer can count.
SettingsAgree(env, id) ==
  LET status == StatusFor(id, env)
      offered == id \in DOMAIN SourceProviders /\ SourceProviders[id].enabled
  IN /\ id \in Providers => (status.configured <=> Gate(id, ReadConfig(id, env)) = "open")
     /\ status.configured => status.featureEnabled
     /\ offered /\ SourceProviders[id].previewEnabled <=> ResolveProvider(id, "preview") = "ok"
     /\ offered /\ SourceProviders[id].importEnabled <=> ResolveProvider(id, "import") = "ok"
     /\ RouteCall(id, "import", env) = "open" =>
          RouteCall(id, "preview", env) = "open" /\ status.configured
     /\ RefreshCall(id, env) = "open" <=> RouteCall(id, "import", env) = "open"
     /\ id \in Scheduled(env) => RefreshCall(id, env) = "open"
     /\ ScheduledInterval(env) \in TTL .. MaxDelay => Period(ScheduledInterval(env)) >= TTL
=============================================================================
