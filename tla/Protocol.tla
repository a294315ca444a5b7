------------------------------- MODULE Protocol -------------------------------
(***************************************************************************)
(* The protocol's own administration: the one ProtocolConfig, its three    *)
(* layouts and their migration, the two-step handover of its admin, the    *)
(* key collection, and the lists of markets and of artwork providers.      *)
(*                                                                         *)
(* An account in an old layout is too short for every instruction but      *)
(* migrate_config; the old versions of the program that wrote one are not  *)
(* modelled, their result is an initial state.                             *)
(***************************************************************************)
EXTENDS Integers

CONSTANTS
    Admins,       \* wallets that may come to administer the protocol
    Nobody,       \* Pubkey::default()
    Collections,  \* addresses at which a collection can be created
    NavMints,     \* nav tokens
    Programs      \* programs that sell artwork

ASSUME ProtocolAssumption == Nobody \notin Admins \cup Collections

VARIABLES
    layout,       \* of the config account: "absent", "v0", "v1" or "v2"
    config,       \* its fields; those an old layout lacks are Nobody
    collections,  \* collection assets that exist
    markets,      \* nav mints with a MarketConfig
    trusted,      \* programs with a TrustedProvider account
    nominator     \* history: the admin who named pending_admin

protocolVars == <<layout, config, collections, markets, trusted, nominator>>

ProtocolConfig ==
    [admin : Admins \cup {Nobody}, collection : Collections \cup {Nobody},
     pending_admin : Admins \cup {Nobody}]

Unset == [admin |-> Nobody, collection |-> Nobody, pending_admin |-> Nobody]

ProtocolInit ==
    /\ layout \in {"absent", "v0", "v1"}
    /\ \E w \in Admins, c \in Collections \cup {Nobody} :
          config = CASE layout = "absent" -> Unset
                     [] layout = "v0" -> [Unset EXCEPT !.admin = w]
                     [] layout = "v1" -> [Unset EXCEPT !.admin = w, !.collection = c]
    /\ collections = {config.collection} \ {Nobody}
    /\ markets = {}
    /\ trusted = {}
    /\ nominator = Nobody

(* Account<ProtocolConfig> with a constraint on the admin.                 *)
SignedByAdminAnyLayout(w) == w = config.admin  \* slip: layout unchecked
SignedByAdmin(w) == layout = "v2" /\ w = config.admin
-----------------------------------------------------------------------------
(* initialize_protocol: whoever comes first.                               *)
InitializeProtocol(w) ==
    /\ layout = "absent"
    /\ layout' = "v2"
    /\ config' = [Unset EXCEPT !.admin = w]
    /\ UNCHANGED <<collections, markets, trusted, nominator>>

CreateCollection(w, c) ==
    /\ SignedByAdmin(w)
    /\ config.collection = Nobody
    /\ c \notin collections
    /\ collections' = collections \cup {c}
    /\ config' = [config EXCEPT !.collection = c]
    /\ UNCHANGED <<layout, markets, trusted, nominator>>

(* transfer_admin: to anybody; to nobody is to take a nomination back.     *)
TransferAdmin(w, new_admin) ==
    /\ SignedByAdmin(w)
    /\ config' = [config EXCEPT !.pending_admin = new_admin]
    /\ nominator' = w
    /\ UNCHANGED <<layout, collections, markets, trusted>>

(* The config once its pending admin has accepted.                         *)
AcceptedKeepingPending == [config EXCEPT !.admin = config.pending_admin]  \* slip
Accepted == [config EXCEPT !.admin = config.pending_admin, !.pending_admin = Nobody]

AcceptAdmin(new_admin) ==
    /\ layout = "v2"
    /\ config.pending_admin = new_admin
    /\ config.pending_admin # Nobody
    /\ config' = Accepted
    /\ UNCHANGED <<layout, collections, markets, trusted, nominator>>

(* migrate_config: what an old layout holds, in the new one.               *)
MigratedAsV0 == [Unset EXCEPT !.admin = config.admin]  \* slip: v1 taken for v0
Migrated ==
    [admin |-> config.admin,
     collection |-> IF layout = "v0" THEN Nobody ELSE config.collection,
     pending_admin |-> Nobody]

MigrateConfig(w) ==
    /\ layout \in {"v0", "v1"}
    /\ w = config.admin
    /\ layout' = "v2"
    /\ config' = Migrated
    /\ UNCHANGED <<collections, markets, trusted, nominator>>

CreateMarketConfig(w, mint) ==
    /\ SignedByAdmin(w)
    /\ mint \notin markets
    /\ markets' = markets \cup {mint}
    /\ UNCHANGED <<layout, config, collections, trusted, nominator>>

AddTrustedProvider(w, program) ==
    /\ SignedByAdmin(w)
    /\ program \notin trusted
    /\ trusted' = trusted \cup {program}
    /\ UNCHANGED <<layout, config, collections, markets, nominator>>

(* remove_trusted_provider closes the account, so it can be added again.   *)
RemoveTrustedProvider(w, program) ==
    /\ SignedByAdmin(w)
    /\ program \in trusted
    /\ trusted' = trusted \ {program}
    /\ UNCHANGED <<layout, config, collections, markets, nominator>>

ProtocolNext ==
    \E w \in Admins :
       \/ InitializeProtocol(w) \/ AcceptAdmin(w) \/ MigrateConfig(w)
       \/ \E c \in Collections : CreateCollection(w, c)
       \/ \E new \in Admins \cup {Nobody} : TransferAdmin(w, new)
       \/ \E mint \in NavMints : CreateMarketConfig(w, mint)
       \/ \E program \in Programs :
             AddTrustedProvider(w, program) \/ RemoveTrustedProvider(w, program)

ProtocolSpec == ProtocolInit /\ [][ProtocolNext]_protocolVars
-----------------------------------------------------------------------------
(* An account in an old layout has only the fields of that layout.         *)
ProtocolTypeOK ==
    /\ layout \in {"absent", "v0", "v1", "v2"}
    /\ config \in ProtocolConfig
    /\ layout = "absent" <=> config.admin = Nobody
    /\ layout = "v0" => config.collection = Nobody
    /\ layout \in {"v0", "v1"} => config.pending_admin = Nobody
    /\ config.collection \in collections \cup {Nobody}
    /\ collections \subseteq Collections
    /\ markets \subseteq NavMints
    /\ trusted \subseteq Programs
    /\ nominator \in Admins \cup {Nobody}

(* A nomination is always the sitting admin's own: one that was made by a  *)
(* former admin, or before a migration, cannot be accepted any more.       *)
NominationIsCurrent ==
    config.pending_admin # Nobody => nominator = config.admin

(* The collection is for ever.  Every key carries it as its authority and  *)
(* validate_key compares with it, so a second one would strand all         *)
(* positions; neither a migration nor a new admin may change it.           *)
CollectionIsForever ==
    [][config.collection # Nobody => config'.collection = config.collection]_protocolVars
=============================================================================
