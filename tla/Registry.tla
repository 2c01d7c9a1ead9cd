------------------------------- MODULE Registry -------------------------------
(***************************************************************************)
(* The provider registry and the policy engine, which guard a map the same *)
(* way: what a long operation works on is copied under the lock, and the   *)
(* operation goes on without it while the map changes.                     *)
(***************************************************************************)
EXTENDS Nothing, Maps, FiniteSets, Functions

CONSTANTS
    Providers,      \* provider |-> the sets of resources it may find
    Policies        \* the ids of policies

VARIABLES
    providers,  \* the names registered
    discovery,  \* [phase, asked, pending, found, failed], or Nil: a DiscoverAll
    policies,   \* Engine.policies: id |-> enabled
    evaluation  \* [phase, todo, results, at], or Nil: an EvaluateResources

providerVars == <<providers, discovery>>
policyVars   == <<policies, evaluation>>
registryVars == <<providerVars, policyVars>>

RegistryInit ==
    /\ providers = {} /\ discovery = Nil
    /\ policies = EmptyMap /\ evaluation = Nil

\* Faulty variant: the discovery that is running goes over the map itself.
RegisterAndAsk(name) ==
    /\ name \notin providers
    /\ providers' = providers \cup {name}
    /\ discovery' = IF discovery = Nil THEN Nil
                    ELSE [discovery EXCEPT !.pending = @ \cup {name}]
    /\ UNCHANGED policyVars

\* A name that is taken is refused.
Register(name) ==
    /\ name \notin providers
    /\ providers' = providers \cup {name}
    /\ UNCHANGED <<discovery, policyVars>>

\* The names are copied, and a goroutine is started for each.
DiscoverAll ==
    /\ discovery = Nil
    /\ discovery' = [phase |-> "running", asked |-> providers, pending |-> providers,
                     found |-> EmptyMap, failed |-> {}]
    /\ UNCHANGED <<providers, policyVars>>

\* A provider answers, in any order, with what it found or an error.
Answer(p, resources) ==
    /\ discovery # Nil /\ discovery.phase = "running" /\ p \in discovery.pending
    /\ discovery' = [discovery EXCEPT !.pending = @ \ {p},
                                      !.found = Put(@, p, resources)]
    /\ UNCHANGED <<providers, policyVars>>

AnswerError(p) ==
    /\ discovery # Nil /\ discovery.phase = "running" /\ p \in discovery.pending
    /\ discovery' = [discovery EXCEPT !.pending = @ \ {p}, !.failed = @ \cup {p}]
    /\ UNCHANGED <<providers, policyVars>>

Found == UNION Range(discovery.found)

\* Faulty variant: any error fails the whole discovery.
CollectAllOrNothing ==
    /\ discovery # Nil /\ discovery.phase = "running" /\ discovery.pending = {}
    /\ discovery' = [discovery EXCEPT
                        !.phase = IF discovery.failed # {} THEN "failed" ELSE "done"]
    /\ UNCHANGED <<providers, policyVars>>

\* The channel is closed when all have answered. It is a failure of all when
\* there is an error and nothing was found; otherwise errors are only logged.
Collect ==
    /\ discovery # Nil /\ discovery.phase = "running" /\ discovery.pending = {}
    /\ discovery' = [discovery EXCEPT
                        !.phase = IF discovery.failed # {} /\ Found = {} THEN "failed" ELSE "done"]
    /\ UNCHANGED <<providers, policyVars>>

AddPolicy(id, enabled) ==
    /\ policies' = Put(policies, id, enabled)
    /\ UNCHANGED <<providerVars, evaluation>>

RemovePolicy(id) ==
    /\ id \in DOMAIN policies
    /\ policies' = Restrict(policies, DOMAIN policies \ {id})
    /\ UNCHANGED <<providerVars, evaluation>>

EvaluateResources ==
    /\ evaluation = Nil
    /\ evaluation' = [phase |-> "running", todo |-> {p \in DOMAIN policies : policies[p]},
                      results |-> {}, at |-> policies]
    /\ UNCHANGED <<providerVars, policies>>

\* evaluatePolicy passes everything: there is no Rego behind it yet.
EvaluatePolicy(p) ==
    /\ evaluation # Nil /\ p \in evaluation.todo
    /\ evaluation' = [evaluation EXCEPT !.todo = @ \ {p},
                                        !.results = @ \cup {[policy |-> p, passed |-> TRUE]}]
    /\ UNCHANGED <<providerVars, policies>>

\* The response: the summary counts results, and all passed if none failed.
Respond ==
    /\ evaluation # Nil /\ evaluation.phase = "running" /\ evaluation.todo = {}
    /\ evaluation' = [evaluation EXCEPT !.phase = "done"]
    /\ UNCHANGED <<providerVars, policies>>

ProvidersNext ==
    \/ \E p \in DOMAIN Providers :
          Register(p) \/ AnswerError(p) \/ \E found \in Providers[p] : Answer(p, found)
    \/ DiscoverAll \/ Collect

PoliciesNext ==
    \/ \E p \in Policies :
          RemovePolicy(p) \/ EvaluatePolicy(p) \/ \E enabled \in BOOLEAN : AddPolicy(p, enabled)
    \/ EvaluateResources \/ Respond

RegistrySpec == RegistryInit /\ [][ProvidersNext \/ PoliciesNext]_registryVars

RegistryTypeOK ==
    /\ providers \subseteq DOMAIN Providers
    /\ discovery # Nil =>
          /\ discovery.asked \subseteq providers
          /\ discovery.asked = discovery.pending \cup DOMAIN discovery.found \cup discovery.failed
    /\ DOMAIN policies \subseteq Policies
    /\ evaluation # Nil => evaluation.todo \subseteq Policies

-----------------------------------------------------------------------------
(* Properties *)

\* "All providers failed" (cloud/provider.go:192) is said only when nothing at all
\* was found, and never of a discovery that found something: what one provider
\* found is returned whatever the others did. A response about policies speaks
\* of those enabled at one moment, each once, whatever changed since.
ResponsesAreWhole ==
    /\ discovery # Nil =>
          /\ discovery.phase = "failed" => \A p \in DOMAIN discovery.found : discovery.found[p] = {}
          /\ (discovery.phase # "running" /\ Found # {}) => discovery.phase = "done"
          /\ discovery.phase = "done" =>
                \/ Found # {}
                \/ DOMAIN discovery.found = discovery.asked
    /\ (evaluation # Nil /\ evaluation.phase = "done") =>
          {r.policy : r \in evaluation.results} =
              {p \in DOMAIN evaluation.at : evaluation.at[p]}
=============================================================================
