---------------------------- MODULE CandidatePool ----------------------------
(***************************************************************************)
(* What candidate refreshing promises a coupon store, whoever triggers it   *)
(* and however its fetches overlap, fail or are cut short: an import only    *)
(* ever adds, and what it adds for a store the provider has offered for that *)
(* very store; only an administrator takes anything away.                    *)
(***************************************************************************)
EXTENDS Naturals

CONSTANTS Domains, Codes,
          Offered   \* Offered[d]: the codes the provider lists for store d

VARIABLES codes,   \* codes[d]: the coupon codes of store d
          prov     \* prov[d]: those of them with the provider's provenance

vars == <<codes, prov>>

TypeOK ==
  /\ codes \in [Domains -> SUBSET Codes]
  /\ prov \in [Domains -> SUBSET Codes]

Init ==
  /\ codes \in [Domains -> SUBSET Codes]
  /\ prov \in [Domains -> SUBSET Codes]
  /\ \A d \in Domains : prov[d] \subseteq codes[d] \cap Offered[d]

\* An import of the offered codes S.
Learn(d, S) ==
  /\ S \subseteq Offered[d]
  /\ codes' = [codes EXCEPT ![d] = @ \cup S]
  /\ prov' = [prov EXCEPT ![d] = @ \cup S]

\* An administrator rewrites (or deletes) the list of a store.
Edit(d, S) ==
  /\ codes' = [codes EXCEPT ![d] = S]
  /\ prov' = [prov EXCEPT ![d] = @ \cap S]

Next == \E d \in Domains, S \in SUBSET Codes : Learn(d, S) \/ Edit(d, S)

Spec == Init /\ [][Next]_vars

\* Provenance never outlives its code, and is never claimed for a code the
\* provider does not list for that store (docs/SOURCE_POLICY.md's provenance
\* rules; coupon_code_sources rows).
ProvenanceIsTrue ==
  \A d \in Domains : prov[d] \subseteq codes[d] \cap Offered[d]
=============================================================================
