------------------------------ MODULE NodeRepo ------------------------------
(***************************************************************************)
(* The repository of nodes on its own, with the file that keeps it between *)
(* two runs of the program.                                                *)
(***************************************************************************)
EXTENDS RepoOps

CONSTANT Torn   \* a file that File::create has emptied and that is not written to the end

VARIABLES repository,   \* NodeRepository: the map, the list and whether changes is above 0
          file          \* what the file holds, if there is one

savedVars == <<repository, file>>

RepoInit == file = None /\ repository \in Loads(None)

\* Writing is left out when nothing has changed, and may fail. If the process ends
\* in the middle of it, what memory and file had is gone.
save ==
    \/ ~repository.dirty /\ UNCHANGED savedVars
    \/ /\ repository.dirty
       /\ file' = repository.nodes
       /\ repository' = [repository EXCEPT !.dirty = FALSE]
    \/ repository.dirty /\ UNCHANGED savedVars
    \/ repository.dirty /\ file' = Torn /\ repository' = empty

\* The program ends and comes back. With a torn file it does not: load panics.
Reload == IF file = Torn THEN UNCHANGED savedVars ELSE repository' \in Loads(file) /\ UNCHANGED file

Operation ==
    \/ \E id \in Ids, ep \in Endpoints :
          repository' = new_node(repository, id, ep) /\ UNCHANGED file
    \/ \E id \in Ids : repository' = remove(repository, id) /\ UNCHANGED file
    \/ \E id \in DOMAIN repository.nodes :
          /\ repository.nodes[id].score < MaxScore
          /\ repository' = up_score(repository, id)
          /\ UNCHANGED file
    \/ \E id \in Ids : repository' = down_score(repository, id) /\ UNCHANGED file
    \/ repository' \in Trims(repository) /\ UNCHANGED file
    \/ save

RepoNext == (file # Torn /\ Operation) \/ Reload

RepoSpec == RepoInit /\ [][RepoNext]_savedVars

-----------------------------------------------------------------------------
(* Properties *)

\* get_nodes and resort find every entry of the list: list and map have the same
\* hashes, once each but for the seeds, and the list is ordered by score.
RepoConsistent ==
    LET nodes == repository.nodes
        sorted == repository.sorted
    IN /\ Range(sorted) = DOMAIN nodes
       /\ \A j, k \in DOMAIN sorted :
             j < k => /\ nodes[sorted[j]].score >= nodes[sorted[k]].score
                      /\ sorted[j] = sorted[k] => sorted[j] = NoKey

\* save may leave out writing: without changes the file has what memory has,
\* unless it could not be read or written to the end.
CleanIsSaved == ~repository.dirty => file = repository.nodes \/ repository.nodes = <<>>

=============================================================================
