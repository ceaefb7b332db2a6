--------------------------- MODULE MCRequestGate ---------------------------
EXTENDS RequestGate, TLC

(* A route that only reads, one with each kind of write, and one without a *)
(* rule.                                                                   *)
MCAsked ==
    {r \in AllRoutes : <<r.method, r.path>> \in
        {<<"GET", <<"jobs">>>>, <<"PATCH", <<"candidates", Param>>>>,
         <<"POST", <<"search", "saved">>>>, <<"PATCH", <<"submissions", Param, "status">>>>}}

CONSTANTS recruiter, viewer, stranger

MCRoleOf == (recruiter :> "Recruiter") @@ (viewer :> "Viewer") @@ (stranger :> None)

=============================================================================
