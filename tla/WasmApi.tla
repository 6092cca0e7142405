------------------------------ MODULE WasmApi ------------------------------
(***************************************************************************)
(* The WebAssembly module: its viewer, its editor and its signing, which   *)
(* share a process.  They keep globals of their own; nanopdf_shutdown      *)
(* resets those of the viewer and of the editor at once.                   *)
(***************************************************************************)
EXTENDS WasmView, WasmWork, WasmSign

vars == <<viewVars, workVars, signVars>>

Init == ViewInit /\ WorkInit /\ SignInit

\* nanopdf_shutdown: stamps, the form that was saved and a signing session stay.
Shutdown == ViewShutdown /\ WorkShutdown /\ UNCHANGED signVars

ViewStep == ViewNext /\ UNCHANGED <<workVars, signVars>>
WorkStep == WorkNext /\ UNCHANGED <<viewVars, signVars>>
SignStep == SignNext /\ UNCHANGED <<viewVars, workVars>>

Next == ViewStep \/ WorkStep \/ SignStep \/ Shutdown

Spec == Init /\ [][Next]_vars

---------------------------------------------------------------------------
\* The types of the globals, and nothing that is kept belongs to a deleted document.
ApiSound == ViewTypeOK /\ WorkTypeOK /\ SignTypeOK /\ KeptIsOpen
=============================================================================
