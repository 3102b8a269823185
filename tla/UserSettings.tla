------------------------------ MODULE UserSettings ------------------------------
(***************************************************************************)
(* The AI settings of one user (profiles of different users are unrelated  *)
(* rows): a provider and the user's own token for it, edited by requests   *)
(* that read the profile, check the change against it and write it, and    *)
(* what is made of them whenever a model is needed.                        *)
(*                                                                         *)
(* A token is represented by the provider it was entered for: the one the  *)
(* request names, or the one the profile had when it was read.             *)
(***************************************************************************)
EXTENDS ApiRequests

CONSTANTS
    Providers,      \* the personal providers, retired ones included
    Supported       \* PERSONAL_PROVIDERS, those that can be chosen

ASSUME SettingsConstants == Supported \subseteq Providers

VARIABLES
    profile,        \* aiProvider and the token of the user's profile
    systemLlm,      \* external: where a system default is configured
    crossed,        \* history: requests whose profile was written after they
                    \* read it
    blended         \* history: the profile has a token from such a request, or
                    \* one that was given out and sent back for another provider

settingsVars == <<profile, systemLlm, crossed, blended>>

Profile == [provider : Providers, token : Providers \cup {None}]

SettingsInit ==
    /\ profile \in {p \in Profile : p.token \in {None, p.provider}}
    /\ systemLlm \in SUBSET {"agent", "agentEnv", "config"}
    /\ crossed = {}
    /\ blended = FALSE

(***************************************************************************)
(* updateMySettings.                                                       *)
(***************************************************************************)
\* apiToken is not in the request, is the mask the page was given, is blank, is
\* a new one, or is the plain token that getMySettings gave the page, echoed.
\* Bound: the page has it from the profile as it is when the request arrives.
ApiTokens == {"absent", "masked", "blank", "new", "echoed"}

SettingsCall ==
    [kind : {"settings"}, provider : Supported \cup {None},
     apiToken : ApiTokens, echo : Providers \cup {None},
     read : Profile \cup {None}]

SettingsRequest(c) ==
    /\ \E p \in Supported \cup {None}, t \in ApiTokens :
          /\ t = "echoed" => profile.token # None
          /\ Arrive(c, "readProfile",
                    [kind |-> "settings", provider |-> p, apiToken |-> t,
                     echo |-> IF t = "echoed" THEN profile.token ELSE None,
                     read |-> None])
    /\ UNCHANGED settingsVars

ReadProfile(c) ==
    /\ pc[c] = "readProfile"
    /\ Goto(c, "writeProfile", [req[c] EXCEPT !.read = profile])
    /\ crossed' = crossed \ {c}
    /\ UNCHANGED <<profile, systemLlm, blended>>

\* Another provider needs another token.
Refused_Absent(r) ==
    /\ r.provider \notin {None, r.read.provider}
    /\ r.read.token # None
    /\ r.apiToken = "absent"
Refused(r) ==
    /\ r.provider \notin {None, r.read.provider}
    /\ r.read.token # None
    /\ r.apiToken \in {"absent", "masked"}

Chosen(r, p) == IF r.provider = None THEN p ELSE r.provider

Edited(r) ==
    [provider |-> Chosen(r, profile.provider),
     token |-> CASE r.apiToken = "blank"  -> None
                 [] r.apiToken = "new"    -> Chosen(r, r.read.provider)
                 [] r.apiToken = "echoed" -> r.echo
                 [] OTHER                 -> profile.token]

\* The check does not tell a token that was given out from a new one.
SentBack(r) ==
    r.apiToken = "echoed" /\ r.echo # Chosen(r, r.read.provider)

WriteProfile(c) ==
    /\ pc[c] = "writeProfile"
    /\ ~Refused(req[c])
    /\ profile' = Edited(req[c])
    /\ blended' = \/ c \in crossed
                  \/ SentBack(req[c])
                  \/ blended /\ req[c].apiToken \in {"absent", "masked"}
    /\ crossed' = (crossed \ {c})
                  \cup {d \in Clients \ {c} : pc[d] = "writeProfile"}
    /\ Finish(c)
    /\ UNCHANGED systemLlm

RefuseProfile(c) ==
    /\ pc[c] = "writeProfile"
    /\ Refused(req[c])
    /\ crossed' = crossed \ {c}
    /\ Finish(c)
    /\ UNCHANGED <<profile, systemLlm, blended>>

SettingsStep(c) == ReadProfile(c) \/ WriteProfile(c) \/ RefuseProfile(c)

\* Requests C end without finishing.
Uncrossed(C) == /\ crossed' = crossed \ C
                /\ UNCHANGED <<profile, systemLlm, blended>>

(***************************************************************************)
(* resolveEffectiveLlmFromProfile: the endpoint that is used, and the      *)
(* token that goes there, if the Backend is the one to send it.            *)
(***************************************************************************)
NoLlm == [source |-> "none", provider |-> None, token |-> None]

\* The default that the Agent reports, one in the Agent's env file, and one in
\* the Backend's own configuration.  The Agent knows the tokens of the first
\* two itself; only the third is sent.
AgentDefault    == [source |-> "system", provider |-> "agent", token |-> None]
AgentEnvDefault == [AgentDefault EXCEPT !.provider = "agentEnv"]
ConfigDefault   == [source |-> "system", provider |-> "config",
                    token |-> "config"]

SystemDefault ==
    IF "agent" \in systemLlm THEN AgentDefault
    ELSE IF "agentEnv" \in systemLlm THEN AgentEnvDefault
    ELSE IF "config" \in systemLlm THEN ConfigDefault
    ELSE NoLlm

\* A token of a provider that cannot be chosen any more is not used.
EffectiveLlm(p) ==
    IF p.token # None /\ p.provider \in Supported
    THEN [source |-> "personal", provider |-> p.provider, token |-> p.token]
    ELSE SystemDefault

\* resolveRefineRuntimeLlmPayload: a replay is refined with the model it was
\* asked for, or with what the Agent has.
RefineLlm(source) ==
    LET llm == EffectiveLlm(IF source = "personal" THEN profile
                            ELSE [profile EXCEPT !.token = None])
    IN  IF llm.source = source /\ llm.token # None THEN llm ELSE NoLlm

SettingsTypeOK ==
    /\ profile \in Profile
    /\ systemLlm \subseteq {"agent", "agentEnv", "config"}
    /\ crossed \subseteq Clients
    /\ blended \in BOOLEAN

=============================================================================
