------------------------------- MODULE Benches ------------------------------
(***************************************************************************)
(* The programs of src/bench that are no task programs, beside each other:     *)
(* each keeps variables of its own.                                          *)
(***************************************************************************)
EXTENDS Integers, Sequences, FiniteSets

CONSTANTS
    Listeners, Conns, SndBuf, NFds, RequestUnits, ResponseUnits, BUF_SIZE, MaxRequests,
    creatureColours, MEETINGS, Capacity,
    tabColour,
    Arrays, Keys, MaxLookups, StreamCounts, capacity

VARIABLES
    backlog, peer, inbox, outbox, fd, killed, call, task, buffer, left, client, \* HttpServer
    m_program, m_pc, col, met, self_met, mate, mail, requests, broker, count, held,
    total,                                                                  \* Chameneos
    AtMostTwo, Mutex, SemPriv, FirstCall, AColour, BColour, t_pc, myColour, otherColour,
    partner,                                                                \* Cooperation
    sorted, keys, streams, s_pc, next_arg, limit, found_count, not_found_count, s_queue,
    search                                                                  \* Lookups

http == INSTANCE HttpServer
chameneos == INSTANCE Chameneos WITH program <- m_program, pc <- m_pc
cooperation == INSTANCE Cooperation WITH pc <- t_pc
looking == INSTANCE Lookups WITH v <- sorted, lookups <- keys, pc <- s_pc, queue <- s_queue

ASSUME HttpAssumption == http!HttpConstants
ASSUME ChameneosAssumption == chameneos!ChameneosConstants
ASSUME LookupsAssumption == looking!LookupsConstants

http_vars == <<backlog, peer, inbox, outbox, fd, killed, call, task, buffer, left, client>>
chameneos_vars == <<m_program, m_pc, col, met, self_met, mate, mail, requests, broker, count,
                    held, total>>
cooperation_vars == <<AtMostTwo, Mutex, SemPriv, FirstCall, AColour, BColour, t_pc, myColour,
                      otherColour, partner>>
lookups_vars == <<sorted, keys, streams, s_pc, next_arg, limit, found_count, not_found_count,
                  s_queue, search>>
=============================================================================
