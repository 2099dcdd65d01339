------------------------------ MODULE MCReassign ------------------------------
\* One request, one recoverer that comes back after each of its deaths, and one scene
\* for every way through the code: no doc_path; a workspace to be made, with the
\* document in its source workspace; a workspace found, and no source workspace; a
\* mapped workspace that is there, with the document not in its source workspace; and
\* one that is gone.
EXTENDS Reassign

Scene(path, source, present, mapping, exists) ==
    [remote |-> path, source |-> source, member |-> present,
     mapping |-> mapping, exists |-> exists]

MCScenes ==
    {Scene(FALSE, FALSE, FALSE, FALSE, FALSE),
     Scene(TRUE, TRUE, TRUE, FALSE, FALSE),
     Scene(TRUE, FALSE, FALSE, FALSE, TRUE),
     Scene(TRUE, TRUE, FALSE, TRUE, TRUE),
     Scene(TRUE, TRUE, TRUE, TRUE, FALSE)}
===============================================================================
