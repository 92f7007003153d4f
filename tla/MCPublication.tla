--------------------------- MODULE MCPublication ----------------------------
(* Small instances of Publication for TLC.                                    *)
EXTENDS Publication
CONSTANTS first, second

MCPrograms == {first, second}
MCKinds ==
    {"cf_upload", "nb_edit", "nb_create", "nb_official", "nb_delete",
     "nb_backup", "dd_object", "dd_change", "dd_backup", "dd_delete",
     "bb_edit", "bb_create", "bb_backup", "bb_delete", "bb_rename",
     "modus_change", "modus_release", "modus_backup", "modus_rename",
     "modus_delete"}
MCKindsUnleased == {"dd_change"}
=============================================================================
