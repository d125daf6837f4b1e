------------------------------ MODULE Services ------------------------------
(***************************************************************************)
(* What the parts of ServicesService share: requests that are in progress  *)
(* at the same time, each a few statements with others between them.       *)
(* Slots has the weekly schedule, the overrides and the slots;             *)
(* ServiceImages the images of a service.                                  *)
(***************************************************************************)
CONSTANTS
  Req,       \* requests in progress
  MaxCalls,  \* bound: requests started
  None

VARIABLE calls \* requests started
=============================================================================
