---------------------------- MODULE MCDebatePhase ----------------------------
(* A small instance of DebatePhase for TLC. *)
EXTENDS DebatePhase, TLC

CONSTANTS d1, d2, d3, a1, a2, a3

\* Two agents of one domain, of whom the registry has one, and one of another
\* domain, which none is paired with.
MCDomainOf == (a1 :> "backend") @@ (a2 :> "backend") @@ (a3 :> "product")
MCPartners == (a1 :> {a2}) @@ (a2 :> {a1}) @@ (a3 :> {})

\* Ids and texts are interchangeable, and the run checks safety only.
Symmetry == Permutations(Key) \union Permutations(Text)
=============================================================================
