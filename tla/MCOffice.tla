------------------------------- MODULE MCOffice -------------------------------
(* Instance for TLC of the components that change nothing of one another:    *)
(* invoices, deposits, documents, property options, units and comparisons.   *)
(* They share no state that two of them change (invoices and options each    *)
(* have approval rows of their own), so that each is studied in behaviours   *)
(* of its own; focus says which.                                             *)
EXTENDS Invoices, Deposits, Agreements, PropertyOptions, Organization,
        Comparison

VARIABLE focus

officeVars == <<invoiceVars, depositVars, documentVars, propertyVars,
                organizationVars, totals, focus>>

InitOffice ==
  /\ InitInvoices /\ InitDeposits /\ InitDocuments
  /\ InitProperties /\ InitOrganization /\ InitComparison
  /\ focus \in {"invoices", "deposits", "loa", "agreement",
                "properties", "organization", "comparison"}

\* What each component leaves alone.
BesideApprovals == <<depositVars, documentVars, organizationVars, totals>>
BesideInvoices == <<BesideApprovals, options, option_events, surveying>>
BesideProperties == <<BesideApprovals, invoices, invoicing>>
BesideDeposits ==
  <<invoiceVars, propertyVars, documentVars, organizationVars, totals>>
BesideDocuments ==
  <<invoiceVars, propertyVars, depositVars, organizationVars, totals>>
BesideOrganization ==
  <<invoiceVars, propertyVars, depositVars, documentVars, totals>>
BesideComparison ==
  <<invoiceVars, propertyVars, depositVars, documentVars, organizationVars>>

NextOffice ==
  /\ UNCHANGED focus
  /\ \/ focus = "invoices"     /\ NextInvoices     /\ UNCHANGED BesideInvoices
     \/ focus = "deposits"     /\ NextDeposits     /\ UNCHANGED BesideDeposits
     \/ focus = "loa"          /\ NextLOA          /\ UNCHANGED BesideDocuments
     \/ focus = "agreement"    /\ NextAgreement    /\ UNCHANGED BesideDocuments
     \/ focus = "properties"   /\ NextProperties   /\ UNCHANGED BesideProperties
     \/ focus = "organization" /\ NextOrganization
                               /\ UNCHANGED BesideOrganization
     \/ focus = "comparison"   /\ NextComparison   /\ UNCHANGED BesideComparison

SpecOffice == InitOffice /\ [][NextOffice]_officeVars

\* Bound: of the callers of invoices, at most two are at work.
TwoAtATime ==
  Cardinality({w \in InvoiceWorker : invoicing[w] # AtDesk})
    + Cardinality({s \in Session : deciding[s] # Nothing}) <= 2

\* Bound: as many units as lie on one way up have a limit.
LimitsOfOneLine == Cardinality({x \in Present : units[x].rent_limit # NoLimit}) <= 3

\* The rows of all components are well formed, and a worker that decides on an
\* invoice holds an approval row of that invoice.
TypeOKOffice ==
  /\ TypeOKInvoices
  /\ TypeOKDeposits
  /\ TypeOKDocuments
  /\ TypeOKProperties
  /\ TypeOKOrganization

\* Agreements and options alike: whenever the status is not what the trail
\* leads to, because sessions overwrote each other, the trail has a break.
TrailsShowLostChanges ==
  /\ AgreementTrailShowsLostChanges
  /\ OptionTrailShowsLostChanges

\* The same worker threads handle every component.
Symmetry ==
  UNION {Permutations(InvoiceWorker), Permutations(Area),
         Permutations(Branch), Permutations(UnitName)}
=============================================================================
