----------------------------- MODULE MCRecords -----------------------------
(***************************************************************************)
(* An instance of Records for TLC.  The three programs share no account,   *)
(* so each is explored on its own, with the roles, the pause and the       *)
(* deactivation it obeys, while the records of the others are left alone.  *)
(***************************************************************************)
EXTENDS Records, TLC

CONSTANTS op, data   \* the operator, and someone who only manages data

Everyone == {op, data}

RecordRoles == [s \in Actor |-> IF s = op THEN Role \ {"CUSTOM_DATA_MANAGER"}
                                ELSE {"CUSTOM_DATA_MANAGER"}]

RecordMask == {"PAUSE_PAUSE", "PAUSE_UNPAUSE", "DEACTIVATE_DEACTIVATE",
               "NOMINAL_VALUE_INITIALIZE", "NOMINAL_VALUE_PUBLISH",
               "NOMINAL_VALUE_REPUBLISH", "DOCUMENT_SET_DOCUMENT",
               "DOCUMENT_REMOVE_DOCUMENT",
               "METADATA_UPDATE_UPDATE_METADATA_FIELD",
               "METADATA_UPDATE_REMOVE_METADATA_FIELD",
               "ACCESS_CONTROL_GRANT_ROLES", "ACCESS_CONTROL_REVOKE_ROLES"}

AdminBatch == {{"ADMIN"}}

\* Texts of no, one and six bytes.
Texts == {"", "a", "longer"}

Keys == {"name", "Name", "symbol", "uri", "isin"}

Lengths == [t \in Texts \cup Keys |->
              CASE t = "" -> 0 [] t = "a" -> 1 [] t = "uri" -> 3
                [] t \in {"name", "Name", "isin"} -> 4 [] OTHER -> 6]

Folded == [k \in Keys |-> IF k = "Name" THEN "name" ELSE k]

NoExtras == [core |-> [f \in CoreField |-> "a"], extra |-> [k \in {} |-> ""]]

VARIABLE focus \* the program that is explored

MCInit ==
    /\ RecordsInit
    /\ focus \in {"nominal-value", "document", "metadata-update"}

MCNext ==
    /\ RecordsNext
    /\ UNCHANGED focus
    /\ focus # "nominal-value" => UNCHANGED <<now, nominal, nominalEvents>>
    /\ focus # "document" => UNCHANGED documents
    /\ focus # "metadata-update" => UNCHANGED <<roles, metadata, mintLamports>>

MCSpec == MCInit /\ [][MCNext]_<<vars, recordsVars, focus>>

=============================================================================
