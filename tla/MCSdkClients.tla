------------------------------ MODULE MCSdkClients ------------------------------
(***************************************************************************)
(* Small instances of SdkClients: two threads, two objects, and one entry  *)
(* point for each way an input is read and an output written.              *)
(***************************************************************************)
EXTENDS SdkClients

EntryPoints == {"create_client", "export_client_state"}
AllLanguages == {"c", "cpp", "go", "dart", "facade"}
DartOnly == {"dart"}
=============================================================================
