CONSTANTS
    Hosts <- MCHosts
    Ports <- MCPorts

SPECIFICATION Spec

INVARIANT StatusAddressFromHost
