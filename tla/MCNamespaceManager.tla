------------------------- MODULE MCNamespaceManager -------------------------
(* Model-checking instance of NamespaceManager: two namespaces in          *)
(* configuration order.                                                     *)
EXTENDS NamespaceManager

MCNamespaceList == <<"n1", "n2">>
=============================================================================
