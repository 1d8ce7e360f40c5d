--------------------------- MODULE MCEnumerations ---------------------------
(***************************************************************************)
(* Enumerations with everything that thousandeyes/thousandeyes_api declares.*)
(***************************************************************************)
EXTENDS Enumerations, AccountEnumerations, TestEnumerations, InstantTestEnumerations,
        EndpointEnumerations, ResultEnumerations, DashboardEnumerations, GeneratedUnions,
        FiniteSets

AllEnumerations ==
  AllAccountEnumerations \cup AllTestEnumerations \cup AllInstantTestEnumerations
    \cup AllEndpointEnumerations \cup AllResultEnumerations \cup AllDashboardEnumerations

ASSUME TablesComplete == Cardinality(AllEnumerations) = 667 /\ Cardinality(AllUnions) = 19

(* Discriminators are enumerations of their package.                        *)
ASSUME DiscriminatorsDeclared ==
  \A u \in AllUnions : \E e \in AllEnumerations : e.package = u.package /\ e.name = u.type

=============================================================================
