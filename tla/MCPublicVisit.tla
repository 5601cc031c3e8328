---------------------------- MODULE MCPublicVisit ----------------------------
(* PublicVisit on small instances.                                            *)
EXTENDS PublicVisit

MCProducts == [description: {0, 1, 2, 4, 8} \cup 31..36, materials: {0, 3, 14}, cards: {0, 1, 4},
               recyclable: BOOLEAN, certifications: {0, 1}, documents: {0, 2}, images: {0, 1, 3}]

(* One version of any shape without images, or two that differ in images.   *)
MCSnapshots ==
    {<<p>> : p \in {q \in MCProducts : q.images = 0}}
    \cup {<<p, [p EXCEPT !.images = 1]>> :
             p \in {q \in MCProducts : q.images = 3 /\ q.description \in {0, 36}
                                         /\ q.materials = 3 /\ q.documents = 0}}
=============================================================================
