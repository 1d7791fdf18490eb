CONSTANTS
  Clients = {c1, c2}
  NoClient = NoClient
  Listener = Listener
  Plugins = {"cgi"}
  Hangs = {"cgi"}
SPECIFICATION WebSpec
PROPERTY TimeoutEndsRequest
