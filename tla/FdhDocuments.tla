---------------------------- MODULE FdhDocuments ----------------------------
(***************************************************************************)
(* The documents that the commands of FdhProject read: the catalogue of    *)
(* the hub and the version constraints of the manifest.                    *)
(***************************************************************************)
EXTENDS FdhReports, Versions, Catalogue

CONSTANTS
  MaxEntries,  \* entries of a catalogue
  MaxList      \* versions that a constraint is matched against

ASSUME DocumentAssumption == MaxEntries \in Nat /\ MaxList \in Nat

(* For every catalogue of up to MaxEntries entries and every set of directories: what
   the check of the hub's CI accepts, fdh init can install (see Catalogue,
   AcceptedCatalogueInstalls; validate.go, init_wizard_harness.go). *)
CatalogueInstalls == Init => AcceptedCatalogueInstalls(MaxEntries)

(* For every constraint and every list of up to MaxList versions: the version picked
   is the highest of the constraint's range (see Versions, PicksHighestOfRange;
   semver.go). *)
ConstraintPicks == Init => PicksHighestOfRange(MaxList)
=============================================================================
