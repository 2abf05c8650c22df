\* Three coroutines, a host over TLS and in the clear, two redirects, two idle
\* sockets per endpoint.
CONSTANTS
    r1 = r1
    r2 = r2
    r3 = r3
    api = api
    apiPlain = apiPlain
    Requests = {r1, r2, r3}
    Endpoints = {api, apiPlain}
    Https = {api}
    MaxRedirects = 2
    MaxIdle = 2
    MaxEndpoints = 2
SPECIFICATION Spec
SYMMETRY Symmetry
INVARIANTS
    OwnReply
    NoOldSocket
    AuthConfined
