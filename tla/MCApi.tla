--------------------------------- MODULE MCApi ---------------------------------
(* Api with two handlers, and requests for a record and the list of state roots,
   or (in the place of MCRoots in Api.cfg) for a record and the rows of its id. *)
EXTENDS Api

CONSTANTS h1, h2

MCHandlers == {h1, h2}

MCRecord == [route |-> "record", of |-> 1]

MCRoots == {MCRecord, [route |-> "roots", of |-> 0]}

MCBlocks == {MCRecord, [route |-> "blocks", of |-> 1]}
=============================================================================
