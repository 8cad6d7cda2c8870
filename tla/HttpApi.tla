------------------------------ MODULE HttpApi ------------------------------
(***************************************************************************)
(* What the exceptions of the services become over HTTP, and the answers    *)
(* that the endpoints declare in their OpenAPI "responses".                 *)
(***************************************************************************)
EXTENDS Integers

\* register_exception_handlers: the handler of the most specific class, and
\* the one of Exception for whatever the services do not raise on purpose.
StatusOf ==
  [ EntityNotFound |-> 404, EntityAlreadyExists |-> 409, Unauthorized |-> 401,
    Forbidden |-> 403, InvalidStateTransition |-> 422, Validation |-> 422,
    RequestValidation |-> 422, RateLimitExceeded |-> 429,
    IdempotencyConflict |-> 409, DevTrack |-> 400, Unhandled |-> 500 ]

Exceptions == DOMAIN StatusOf

\* The declared answers, by route function.
AuthResponses    == [ register |-> {201, 409, 422, 429},
                      login    |-> {200, 401, 422, 429} ]
UserResponses    == [ update_my_profile |-> {200, 401, 409, 422} ]
CompanyResponses == [ create_company |-> {201, 401, 409, 422},
                      get_company    |-> {200, 401, 404},
                      update_company |-> {200, 401, 404, 409, 422},
                      delete_company |-> {204, 401, 404} ]

\* Of the routers for what hangs on an application, by operation.
InterviewResponses   == [ create |-> {201, 401, 404, 422}, list |-> {200, 401, 404},
                          read |-> {200, 401, 404},
                          update |-> {200, 401, 404, 422}, delete |-> {204, 401, 404} ]
FollowUpResponses    == [ create |-> {201, 401, 404, 422}, list |-> {200, 401, 404},
                          read |-> {200, 401, 404},
                          update |-> {200, 401, 404, 422}, delete |-> {204, 401, 404} ]
NoteResponses        == [ create |-> {201, 401, 404, 422}, list |-> {200, 401, 404},
                          delete |-> {204, 401, 404} ]
ApplicationResponses == [ delete |-> {204, 401, 404} ]
=============================================================================
