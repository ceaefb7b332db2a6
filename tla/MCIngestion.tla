---------------------------- MODULE MCIngestion ----------------------------
EXTENDS Ingestion

Doc(content, name, class) == [content |-> content, name |-> name, class |-> class]

(* A resume, the same resume with a file that is not supported, and the    *)
(* same under another name with a JD, which needs a confirmation.          *)
MCPackages ==
    {<<Doc("a", "n1", "cv")>>,
     <<Doc("a", "n1", "cv"), Doc("b", "n1", "unsupported")>>,
     <<Doc("a", "n2", "cv"), Doc("b", "n1", "jd")>>}

=============================================================================
